---- MODULE Spec2Model ----
(***************************************************************************)
(* CEG Connect backend: the OTP login routes (routes/auth), the bearer     *)
(* token middleware of the resource routers and the route tables.          *)
(*                                                                         *)
(* Node runs every handler on one thread: the code between two awaits is   *)
(* one atomic step, and other requests and timers run at the awaits.       *)
(***************************************************************************)
EXTENDS Integers, Sequences, FiniteSets

VARIABLES
  otpStorage,  \* the Map of routes/auth: email -> record, NoRecord when absent
  now,         \* the wall clock (Date.now()), in ticks of 5 minutes
  users,       \* identity provider: the emails that have a user account
  pc,          \* per request slot: where the auth handler is suspended
  req,         \* per request slot: the request being served
  resp,        \* per request slot: the response sent (NoResp before res.json)
  storedData,  \* per request slot: the record verify-otp read from the Map
  sweepDue,    \* the interval timer has fired and its callback has not run yet
  issued,      \* history: per email, the codes that returned a token for the last send-otp
  stale,       \* history: the verify-otp requests in flight whose record a send-otp replaced
  swept,       \* history: the emails whose record the sweep removed and no send-otp restored
  apc,         \* per resource request slot: position in the middleware chain
  areq,        \* per resource request slot: route and Authorization header
  auser,       \* per resource request slot: req.user (NoUser until set)
  aresp,       \* per resource request slot: HTTP status sent (0 before)
  accessed,    \* per resource request slot: the handler touched admin.firestore()
  communities, \* document store, collection communities: id -> document (NoDoc when absent)
  posts,       \* document store, the posts subcollections: the set of post documents
  postSeq,     \* document store: the number of post documents ever added (fresh ids)
  groups,      \* document store, collection groups: id -> document (NoDoc when absent)
  clock,       \* Date.now() and serverTimestamp() for the documents, in ticks of 24 hours
  rpc,         \* per request slot of the communities and groups routers: the await it is at
  rreq,        \* per request slot: req.user.uid, req.params and req.body
  rdoc,        \* per request slot: communityData while the follow handler waits (NoDoc otherwise)
  postRef,     \* per request slot: the id of the post document the handler added (0 before)
  rresp,       \* per request slot: the response sent (NoAnswer before res.json)
  community,   \* community page of the client: its community state (NoDoc before fetchCommunity)
  cpc,         \* community page of the client: the await its submit or delete handler is at
  fpc,         \* the feed handler: the await it is at
  freq,        \* the feed handler: req.user.uid and req.query
  followedCommunityIds, \* the feed handler: ids of the communities the caller follows
  fnext,       \* the feed handler: index of the community the loop fetches next
  allPosts,    \* the feed handler: the posts fetched so far
  paginatedPosts, \* the feed handler: the page sent with res.json
  fstart,      \* history: the clock and postSeq when the feed request arrived
  messages,    \* document store, the messages subcollections of the groups: the set of message documents
  msgSeq,      \* document store: the number of message documents ever added (fresh ids)
  lastMessage, \* document store: per group, the lastMessage field of the group document
  rdata,       \* per request slot: the documents a GET handler sent with res.json
  userDocs,    \* document store, collection users: uid -> profile document (NoDoc when absent)
  userNotifications, \* document store, the notifications subcollections of the users
  userBookmarks,     \* document store, the bookmarks subcollections of the users
  bookmarkSeq, \* document store: the number of bookmark documents ever added (fresh ids)
  notifications, \* useNotificationStore of the client: the notifications array
  unreadCount, \* useNotificationStore of the client: the unreadCount field
  npc,         \* Notifications page: the handler calls that wait for updateDoc
  spc,         \* the search handler: the await it is at
  sreq,        \* the search handler: req.user.uid and req.query
  communitiesSnapshot, \* the search handler: ids of the communities it scans
  snext,       \* the search handler: index of the community the loop scans next
  matchingPosts, \* the search handler: the matches collected so far
  searchPage,  \* the search handler: the page sent with res.json
  sstatus,     \* the search handler: the HTTP status sent (0 before)
  drawn,       \* history: the values Math.random() has returned to generateOTP
  codes,       \* history: the codes generateOTP has returned
  prior        \* history: per auth request slot, the record send-otp replaced, while the mail is out or has failed

otpVars  == <<otpStorage, now, users, pc, req, resp, storedData, sweepDue, issued, stale, swept>>
authVars == <<apc, areq, auser, aresp, accessed>>
storeVars  == <<communities, posts, postSeq, groups, clock>>
resVars    == <<rpc, rreq, rdoc, postRef, rresp>>
clientVars == <<community, cpc>>
feedVars   == <<fpc, freq, followedCommunityIds, fnext, allPosts, paginatedPosts, fstart>>
msgVars    == <<messages, msgSeq, lastMessage>>
userVars   == <<userDocs, userNotifications, userBookmarks, bookmarkSeq>>
notifVars  == <<notifications, unreadCount, npc>>
searchVars == <<spc, sreq, communitiesSnapshot, snext, matchingPosts, searchPage, sstatus>>
genVars    == <<drawn, codes>>
extVars    == <<msgVars, rdata, userVars, notifVars, searchVars, genVars, prior>>
appVars    == <<storeVars, resVars, clientVars, feedVars, extVars>>
vars     == <<otpStorage, now, users, pc, req, resp, storedData, sweepDue, issued, stale, swept,
             apc, areq, auser, aresp, accessed,
             communities, posts, postSeq, groups, clock, rpc, rreq, rdoc, postRef, rresp,
             community, cpc, fpc, freq, followedCommunityIds, fnext, allPosts, paginatedPosts, fstart,
             messages, msgSeq, lastMessage, rdata,
             userDocs, userNotifications, userBookmarks, bookmarkSeq,
             notifications, unreadCount, npc,
             spc, sreq, communitiesSnapshot, snext, matchingPosts, searchPage, sstatus,
             drawn, codes, prior>>

----------------------------------------------------------------------------
(* Bounds of the model *)

MaxTime  == 2   \* the clock stops here
MaxReq   == 2   \* requests the server has in flight at one time

(* Program constants. The clock counts ticks of 5 * 60 * 1000 ms. *)

OtpTtl      == 1   \* expiresAt = Date.now() + 5 * 60 * 1000
MaxAttempts == 3   \* storedData.attempts >= 3

Reqs == 1 .. MaxReq

\* the values Math.random() takes in the model, as <<numerator, denominator>>
RandomValues == {<<0, 1>>, <<1, 2>>}

----------------------------------------------------------------------------
(* Strings are sequences of characters, numbers print as digit sequences *)

RECURSIVE toString(_)
toString(n) == IF n < 10 THEN <<n>> ELSE Append(toString(n \div 10), n % 10)

RECURSIVE padStart(_, _)
\* s.padStart(n, '0')
padStart(s, n) == IF Len(s) >= n THEN s ELSE padStart(<<0>> \o s, n)

\* (a generator over 000000 to 999999: Math.floor(Math.random() * 1000000), padded)
generateOTPPadded(rnd) == padStart(toString((rnd[1] * 1000000) \div rnd[2]), 6)

\* Math.floor(100000 + Math.random() * 900000).toString(), Math.random() = rnd[1] / rnd[2]
generateOTP(rnd) == toString((100000 * rnd[2] + rnd[1] * 900000) \div rnd[2])

GenCodes == { generateOTP(rnd) : rnd \in RandomValues }

\* [^\s@]
NotSpaceAt(c) == c # " " /\ c # "@"

AllNotSpaceAt(s, lo, hi) == \A i \in lo .. hi : NotSpaceAt(s[i])

\* /^[^\s@]+@[^\s@]+\.[^\s@]+$/.test(s)
emailRegexTest(s) ==
  \E i \in 1 .. Len(s) : \E j \in 1 .. Len(s) :
    /\ s[i] = "@" /\ s[j] = "."
    /\ 1 < i /\ i + 1 < j /\ j < Len(s)
    /\ AllNotSpaceAt(s, 1, i - 1)
    /\ AllNotSpaceAt(s, i + 1, j - 1)
    /\ AllNotSpaceAt(s, j + 1, Len(s))

\* an empty string stands for every falsy value of a body field
Missing == <<>>

ValidEmails  == { <<"a", "@", "b", ".", "c">>, <<"d", "@", "b", ".", "c">> }
EmailInputs  == ValidEmails \cup { <<"a", "@", "b">>, Missing }
OtpInputs    == GenCodes \cup { Missing }

NoRecord == [none |-> TRUE]
NoToken  == <<>>
NoResp   == [status |-> 0, message |-> "", token |-> NoToken]
NoReq    == [kind |-> "none", email |-> Missing, otp |-> Missing]

Reply(status, message) == [status |-> status, message |-> message, token |-> NoToken]

\* admin.auth().createCustomToken(uid, {email, verified}); the uid of a user is its email
CustomToken(uid, email) == <<"customToken", uid, email>>

----------------------------------------------------------------------------
(* POST /send-otp *)

\* a send-otp that merges into the record it finds
StoreOtpKeepsAttempts(store, email, otp, t) ==
  [store EXCEPT ![email] =
     [otp |-> otp, expiresAt |-> t + OtpTtl,
      attempts |-> IF store[email] = NoRecord THEN 0 ELSE store[email].attempts]]

\* otpStorage.set(email, {otp, expiresAt, attempts: 0})
StoreOtp(store, email, otp, t) ==
  [store EXCEPT ![email] = [otp |-> otp, expiresAt |-> t + OtpTtl, attempts |-> 0]]

\* otpStorage.delete(email)
DeleteOtp(store, email) == [store EXCEPT ![email] = NoRecord]

\* (a variant that only rejects a missing email)
InvalidEmailMissingOnly(email) == email = Missing

\* !email || !emailRegex.test(email)
InvalidEmail(email) == email = Missing \/ ~emailRegexTest(email)

\* the verify-otp requests that have passed the checks and wait for the identity provider
InFlight(email) == { q \in DOMAIN pc : pc[q] \in {"lookup", "create", "mint"} /\ req[q].email = email }

\* the handler up to its await of transporter.sendMail
SendOtpStart(r, email, rnd) ==
  /\ pc[r] = "idle"
  /\ req' = [req EXCEPT ![r] = [kind |-> "send", email |-> email, otp |-> Missing]]
  /\ IF InvalidEmail(email)
       THEN /\ resp' = [resp EXCEPT ![r] = Reply(400, "Please use a valid email address")]
            /\ pc' = [pc EXCEPT ![r] = "done"]
            /\ UNCHANGED <<otpStorage, issued, stale, swept, prior>>
       ELSE /\ otpStorage' = StoreOtp(otpStorage, email, generateOTP(rnd), now)
            /\ prior' = [prior EXCEPT ![r] = otpStorage[email]]
            /\ pc' = [pc EXCEPT ![r] = "mail"]
            /\ issued' = [issued EXCEPT ![email] = <<>>]
            /\ stale' = stale \cup InFlight(email)
            /\ swept' = swept \ {email}
            /\ UNCHANGED resp
  /\ UNCHANGED <<now, users, storedData, sweepDue>>
  /\ UNCHANGED <<authVars, storeVars, resVars, clientVars, feedVars>>
  /\ UNCHANGED <<msgVars, rdata, userVars, notifVars, searchVars, genVars>>

\* transporter.sendMail resolved
SendMailOk(r) ==
  /\ pc[r] = "mail"
  /\ resp' = [resp EXCEPT ![r] = Reply(200, "OTP sent successfully")]
  /\ pc' = [pc EXCEPT ![r] = "done"]
  /\ prior' = [prior EXCEPT ![r] = NoRecord]
  /\ UNCHANGED <<otpStorage, now, users, req, storedData, sweepDue, issued, stale, swept>>
  /\ UNCHANGED <<authVars, storeVars, resVars, clientVars, feedVars>>
  /\ UNCHANGED <<msgVars, rdata, userVars, notifVars, searchVars, genVars>>

\* (a catch block that puts the replaced record back)
SendMailFailRollsBack(r) ==
  /\ pc[r] = "mail"
  /\ resp' = [resp EXCEPT ![r] = Reply(500, "Failed to send OTP. Please try again.")]
  /\ pc' = [pc EXCEPT ![r] = "done"]
  /\ otpStorage' = [otpStorage EXCEPT ![req[r].email] = prior[r]]
  /\ UNCHANGED <<now, users, req, storedData, sweepDue, issued, stale, swept>>
  /\ UNCHANGED <<authVars, appVars>>

\* transporter.sendMail rejected: the catch block
SendMailFail(r) ==
  /\ pc[r] = "mail"
  /\ resp' = [resp EXCEPT ![r] = Reply(500, "Failed to send OTP. Please try again.")]
  /\ pc' = [pc EXCEPT ![r] = "done"]
  /\ UNCHANGED <<otpStorage, now, users, req, storedData, sweepDue, issued, stale, swept>>
  /\ UNCHANGED <<authVars, appVars>>

----------------------------------------------------------------------------
(* POST /verify-otp *)

\* !email || !otp
MissingInput(email, otp) == email = Missing \/ otp = Missing

\* an expiry check that is off by one tick
IsExpiredInclusive(rec, t) == t >= rec.expiresAt

\* new Date() > storedData.expiresAt
IsExpired(rec, t) == t > rec.expiresAt

\* an attempts check that allows one attempt more
TooManyAttemptsOffByOne(rec) == rec.attempts > MaxAttempts

\* storedData.attempts >= 3
TooManyAttempts(rec) == rec.attempts >= MaxAttempts

\* (a comparison that lets every code through)
OtpMismatchNever(rec, otp) == FALSE

\* storedData.otp !== otp
OtpMismatch(rec, otp) == rec.otp # otp

\* a mismatch whose increment is not stored
BumpAttemptsNotStored(store, email) == store

\* storedData.attempts++; otpStorage.set(email, storedData)
BumpAttempts(store, email) ==
  [store EXCEPT ![email] = [@ EXCEPT !.attempts = @ + 1]]

\* the Map after the synchronous checks of verify-otp
VerifyStore(store, email, otp, t) ==
  IF MissingInput(email, otp) THEN store
  ELSE IF store[email] = NoRecord THEN store
  ELSE IF IsExpired(store[email], t) THEN DeleteOtp(store, email)
  ELSE IF TooManyAttempts(store[email]) THEN DeleteOtp(store, email)
  ELSE IF OtpMismatch(store[email], otp) THEN BumpAttempts(store, email)
  ELSE store

\* the reply of the synchronous checks of verify-otp, NoResp when the code matches
VerifyReply(store, email, otp, t) ==
  IF MissingInput(email, otp) THEN Reply(400, "Email and OTP are required")
  ELSE IF store[email] = NoRecord THEN Reply(400, "OTP not found or expired")
  ELSE IF IsExpired(store[email], t) THEN Reply(400, "OTP has expired")
  ELSE IF TooManyAttempts(store[email])
    THEN Reply(400, "Too many failed attempts. Please request a new OTP.")
  ELSE IF OtpMismatch(store[email], otp) THEN Reply(400, "Invalid OTP")
  ELSE NoResp

\* const storedData = otpStorage.get(email), NoRecord too when the lookup is not reached
LookupOtp(store, email, otp) ==
  IF MissingInput(email, otp) THEN NoRecord ELSE store[email]

\* the handler up to its await of admin.auth().getUserByEmail
VerifyOtpStart(r, email, otp) ==
  /\ pc[r] = "idle"
  /\ req' = [req EXCEPT ![r] = [kind |-> "verify", email |-> email, otp |-> otp]]
  /\ storedData' = [storedData EXCEPT ![r] = LookupOtp(otpStorage, email, otp)]
  /\ otpStorage' = VerifyStore(otpStorage, email, otp, now)
  /\ LET reply == VerifyReply(otpStorage, email, otp, now) IN
       IF reply = NoResp
         THEN pc' = [pc EXCEPT ![r] = "lookup"] /\ UNCHANGED resp
         ELSE pc' = [pc EXCEPT ![r] = "done"] /\ resp' = [resp EXCEPT ![r] = reply]
  /\ UNCHANGED <<now, users, sweepDue, issued, stale, swept>>
  /\ UNCHANGED <<authVars, appVars>>

\* getUserByEmail resolved with the user: createCustomToken is called
LookupFound(r) ==
  /\ pc[r] = "lookup"
  /\ req[r].email \in users
  /\ pc' = [pc EXCEPT ![r] = "mint"]
  /\ UNCHANGED <<otpStorage, now, users, req, resp, storedData, sweepDue, issued, stale, swept>>
  /\ UNCHANGED <<authVars, appVars>>

\* getUserByEmail rejected (no such user, or any other failure): createUser is called
LookupThrows(r) ==
  /\ pc[r] = "lookup"
  /\ pc' = [pc EXCEPT ![r] = "create"]
  /\ UNCHANGED <<otpStorage, now, users, req, resp, storedData, sweepDue, issued, stale, swept>>
  /\ UNCHANGED <<authVars, appVars>>

\* createUser resolved: the provider holds one account per email
CreateUserOk(r) ==
  /\ pc[r] = "create"
  /\ req[r].email \notin users
  /\ users' = users \cup {req[r].email}
  /\ pc' = [pc EXCEPT ![r] = "mint"]
  /\ UNCHANGED <<otpStorage, now, req, resp, storedData, sweepDue, issued, stale, swept>>
  /\ UNCHANGED <<authVars, appVars>>

\* the Map when the identity provider has failed: the catch block leaves it alone
FailureStore(store, email) == store

\* the catch (firebaseError) block
AuthProviderError(r) ==
  /\ otpStorage' = FailureStore(otpStorage, req[r].email)
  /\ resp' = [resp EXCEPT ![r] = Reply(500, "Failed to create authentication token")]
  /\ pc' = [pc EXCEPT ![r] = "done"]
  /\ stale' = stale \ {r}
  /\ UNCHANGED <<now, users, req, storedData, sweepDue, issued, swept>>
  /\ UNCHANGED <<authVars, appVars>>

\* createUser rejected
CreateUserFail(r) ==
  /\ pc[r] = "create"
  /\ AuthProviderError(r)

\* a success path that forgets the clean-up
CleanUpOtpSkipped(store, email) == store

\* the Map when createCustomToken has resolved: otpStorage.delete(email)
CleanUpOtp(store, email) == DeleteOtp(store, email)

\* createCustomToken resolved: clean up the OTP and answer with the token
MintOk(r) ==
  /\ pc[r] = "mint"
  /\ otpStorage' = CleanUpOtp(otpStorage, req[r].email)
  /\ resp' = [resp EXCEPT ![r] =
                [status |-> 200, message |-> "OTP verified successfully",
                 token |-> CustomToken(req[r].email, req[r].email)]]
  /\ pc' = [pc EXCEPT ![r] = "done"]
  /\ issued' = IF r \in stale THEN issued
                ELSE [issued EXCEPT ![req[r].email] = Append(@, storedData[r].otp)]
  /\ stale' = stale \ {r}
  /\ UNCHANGED <<now, users, req, storedData, sweepDue, swept>>
  /\ UNCHANGED <<authVars, appVars>>

\* createCustomToken rejected
MintFail(r) ==
  /\ pc[r] = "mint"
  /\ AuthProviderError(r)

----------------------------------------------------------------------------
(* setInterval sweep, the clock, and the client reading a response *)

\* a sweep that removes only the expired records that are out of attempts
SweepStoreExhausted(store, t) ==
  [e \in DOMAIN store |->
     IF store[e] # NoRecord /\ t > store[e].expiresAt /\ store[e].attempts >= MaxAttempts
       THEN NoRecord ELSE store[e]]

\* a sweep that blanks the code of an expired record and leaves the entry
SweepStorePartial(store, t) ==
  [e \in DOMAIN store |->
     IF store[e] # NoRecord /\ t > store[e].expiresAt
       THEN [store[e] EXCEPT !.otp = Missing] ELSE store[e]]

\* for (const [email, data] of otpStorage.entries()) if (now > data.expiresAt) delete
SweepStore(store, t) ==
  [e \in DOMAIN store |->
     IF store[e] # NoRecord /\ t > store[e].expiresAt THEN NoRecord ELSE store[e]]

\* the timer callback: it runs to completion, no handler runs inside it
Sweep ==
  /\ sweepDue
  /\ sweepDue' = FALSE
  /\ otpStorage' = SweepStore(otpStorage, now)
  /\ swept' = swept \cup { e \in DOMAIN otpStorage : otpStorage'[e] # otpStorage[e] }
  /\ UNCHANGED <<now, users, pc, req, resp, storedData, issued, stale>>
  /\ UNCHANGED <<authVars, appVars>>

\* 5 minutes pass: the interval timer of the sweep fires
Tick ==
  /\ now < MaxTime
  /\ ~sweepDue
  /\ now' = now + 1
  /\ sweepDue' = TRUE
  /\ UNCHANGED <<otpStorage, users, pc, req, resp, storedData, issued, stale, swept>>
  /\ UNCHANGED <<authVars, appVars>>

\* the response has been delivered: the slot serves the next request
Recycle(r) ==
  /\ pc[r] = "done"
  /\ pc' = [pc EXCEPT ![r] = "idle"]
  /\ req' = [req EXCEPT ![r] = NoReq]
  /\ resp' = [resp EXCEPT ![r] = NoResp]
  /\ storedData' = [storedData EXCEPT ![r] = NoRecord]
  /\ prior' = [prior EXCEPT ![r] = NoRecord]
  /\ UNCHANGED <<otpStorage, now, users, sweepDue, issued, stale, swept>>
  /\ UNCHANGED <<authVars, storeVars, resVars, clientVars, feedVars>>
  /\ UNCHANGED <<msgVars, rdata, userVars, notifVars, searchVars, genVars>>

----------------------------------------------------------------------------
(* The routers mounted under /api and the verifyToken middleware *)

Route(router, method, path, chain) ==
  [router |-> router, method |-> method, path |-> path, chain |-> chain]

Guarded == <<"verifyToken", "handler">>
Open    == <<"handler">>

\* routes/users.js
UserRoutes ==
  { Route("users", "GET", "/profile", Guarded),
    Route("users", "PUT", "/profile", Guarded),
    Route("users", "GET", "/notifications", Guarded),
    Route("users", "PUT", "/notifications/:notificationId/read", Guarded),
    Route("users", "PUT", "/notifications/read-all", Guarded),
    Route("users", "GET", "/bookmarks", Guarded),
    Route("users", "POST", "/bookmarks", Guarded),
    Route("users", "DELETE", "/bookmarks/:bookmarkId", Guarded) }

\* routes/posts.js
PostRoutes ==
  { Route("posts", "GET", "/feed", Guarded),
    Route("posts", "GET", "/trending", Guarded),
    Route("posts", "GET", "/search", Guarded),
    Route("posts", "GET", "/:postId", Guarded),
    Route("posts", "POST", "/:postId/comments", Guarded),
    Route("posts", "GET", "/:postId/comments", Guarded) }

\* routes/communities.js
CommunityRoutes ==
  { Route("communities", "GET", "/", Guarded),
    Route("communities", "GET", "/:communityId", Guarded),
    Route("communities", "POST", "/", Guarded),
    Route("communities", "POST", "/:communityId/follow", Guarded),
    Route("communities", "GET", "/:communityId/posts", Guarded),
    Route("communities", "POST", "/:communityId/posts", Guarded),
    Route("communities", "POST", "/:communityId/posts/:postId/like", Guarded) }

\* routes/groups.js
GroupRoutes ==
  { Route("groups", "GET", "/", Guarded),
    Route("groups", "GET", "/:groupId", Guarded),
    Route("groups", "POST", "/", Guarded),
    Route("groups", "POST", "/:groupId/join", Guarded),
    Route("groups", "POST", "/:groupId/leave", Guarded),
    Route("groups", "GET", "/:groupId/messages", Guarded),
    Route("groups", "POST", "/:groupId/messages", Guarded) }

\* routes/auth.js
AuthRoutes ==
  { Route("auth", "POST", "/send-otp", Open),
    Route("auth", "POST", "/verify-otp", Open) }

\* a router that lost the middleware on one of its routes
ResourceRoutesOneOpen ==
  (UserRoutes \ { Route("users", "PUT", "/profile", Guarded) })
    \cup { Route("users", "PUT", "/profile", Open) }
    \cup PostRoutes \cup CommunityRoutes \cup GroupRoutes

\* app.use('/api/users' | '/api/groups' | '/api/communities' | '/api/posts', ...)
ResourceRoutes == UserRoutes \cup PostRoutes \cup CommunityRoutes \cup GroupRoutes

\* app.use('/api/auth', authRoutes) and the four resource routers
Routes == AuthRoutes \cup ResourceRoutes

\* the routers whose handlers call admin.firestore()
StoreRouters == {"users", "posts", "communities", "groups"}

\* An Authorization header is a sequence of pieces; "Bearer " is the separator
\* of split, every other piece is a run of other characters.
Bearer == "Bearer "

NoHeader == <<"undefined">>

Headers ==
  { NoHeader,
    <<Bearer, "good">>,
    <<Bearer, "forged">>,
    <<Bearer>>,
    <<"good">>,
    <<"Basic ", Bearer, "good">> }

\* the ID tokens the identity provider has issued, with the uid they decode to
IdTokens == { <<"good">> }
DecodedToken(token) == [uid |-> "u1"]

NoUser == [uid |-> ""]
NoCall == [route |-> Route("", "", "", <<>>), header |-> NoHeader]
Undefined == <<"undefined">>

\* header.split('Bearer '): the pieces between the separators, as strings
RECURSIVE Split(_)
Split(h) ==
  IF h = <<>> THEN << <<>> >>
  ELSE IF Head(h) = Bearer THEN << <<>> >> \o Split(Tail(h))
  ELSE LET rest == Split(Tail(h)) IN << <<Head(h)>> \o Head(rest) >> \o Tail(rest)

\* a middleware that takes the first piece of the header for the token
ExtractTokenFirstPiece(h) ==
  IF h = NoHeader THEN Undefined ELSE Split(h)[1]

\* req.headers.authorization?.split('Bearer ')[1]
ExtractToken(h) ==
  IF h = NoHeader THEN Undefined
  ELSE IF Len(Split(h)) < 2 THEN Undefined
  ELSE Split(h)[2]

\* !token
NoTokenGiven(token) == token = Undefined \/ token = <<>>

\* the request enters its route: verifyToken up to its await of verifyIdToken,
\* or the handler at once on a route without the middleware
Dispatch(r, route, header) ==
  /\ apc[r] = "idle"
  /\ areq' = [areq EXCEPT ![r] = [route |-> route, header |-> header]]
  /\ IF route.chain[1] = "verifyToken"
       THEN IF NoTokenGiven(ExtractToken(header))
              THEN /\ aresp' = [aresp EXCEPT ![r] = 401]
                   /\ apc' = [apc EXCEPT ![r] = "done"]
              ELSE /\ apc' = [apc EXCEPT ![r] = "verifyIdToken"]
                   /\ UNCHANGED aresp
       ELSE /\ apc' = [apc EXCEPT ![r] = "handler"]
            /\ UNCHANGED aresp
  /\ UNCHANGED <<auser, accessed>>
  /\ UNCHANGED <<otpVars, appVars>>

\* admin.auth().verifyIdToken(token) resolved: req.user = decodedToken; next()
VerifyIdTokenOk(r) ==
  /\ apc[r] = "verifyIdToken"
  /\ ExtractToken(areq[r].header) \in IdTokens
  /\ auser' = [auser EXCEPT ![r] = DecodedToken(ExtractToken(areq[r].header))]
  /\ apc' = [apc EXCEPT ![r] = "handler"]
  /\ UNCHANGED <<areq, aresp, accessed>>
  /\ UNCHANGED <<otpVars, appVars>>

\* verifyIdToken rejected: the catch block answers 401
VerifyIdTokenFail(r) ==
  /\ apc[r] = "verifyIdToken"
  /\ aresp' = [aresp EXCEPT ![r] = 401]
  /\ apc' = [apc EXCEPT ![r] = "done"]
  /\ UNCHANGED <<areq, auser, accessed>>
  /\ UNCHANGED <<otpVars, appVars>>

\* the statuses the handlers send: 200, or 400 on a rejected input; 403, 404 and
\* 500 follow a store access as 200 does
HandlerStatus == {200, 400}

\* the handler of the route runs: a handler of a resource router reads or writes
\* the document store unless it rejects its input first
Handler(r, status, touches) ==
  /\ apc[r] = "handler"
  /\ touches => areq[r].route.router \in StoreRouters
  /\ ~touches => status = 400 \/ areq[r].route.router \notin StoreRouters
  /\ accessed' = [accessed EXCEPT ![r] = touches]
  /\ aresp' = [aresp EXCEPT ![r] = status]
  /\ apc' = [apc EXCEPT ![r] = "done"]
  /\ UNCHANGED <<areq, auser>>
  /\ UNCHANGED <<otpVars, appVars>>

\* the response has been delivered
Finish(r) ==
  /\ apc[r] = "done"
  /\ apc' = [apc EXCEPT ![r] = "idle"]
  /\ areq' = [areq EXCEPT ![r] = NoCall]
  /\ auser' = [auser EXCEPT ![r] = NoUser]
  /\ aresp' = [aresp EXCEPT ![r] = 0]
  /\ accessed' = [accessed EXCEPT ![r] = FALSE]
  /\ UNCHANGED <<otpVars, appVars>>

----------------------------------------------------------------------------
(* The document store, and the request slots of the communities and groups  *)
(* routers. A slot serves one request; the slots are taken in arrival order. *)

MaxRes   == 3   \* requests to the communities and groups routers in a run
MaxPosts == 2   \* posts the community page of the client submits in a run
MaxClock == 2   \* the clock of the documents stops here

ResReqs      == 1 .. MaxRes
Users        == {"u1", "u2"}
CommunityIds == {"c1", "c2"}
GroupIds     == {"g1"}

\* the order of document ids, in which a query without orderBy returns documents
IdOrder == <<"c1", "c2">>

Range(s) == { s[i] : i \in 1 .. Len(s) }

NoDoc     == [exists |-> FALSE]
NoRequest == [kind |-> "none", uid |-> "", target |-> "", text |-> ""]
NoAnswer  == [status |-> 0, message |-> "", isFollowing |-> FALSE]

Answer(status, message) == [status |-> status, message |-> message, isFollowing |-> FALSE]

\* res.json({ message, isFollowing })
FollowAnswer(message, isFollowing) ==
  [status |-> 200, message |-> message, isFollowing |-> isFollowing]

\* the slot is free and every earlier slot has been taken
Arrives(r) == rpc[r] = "idle" /\ \A q \in 1 .. r - 1 : rpc[q] # "idle"

\* communityData.followers?.includes(uid) || false
IsFollowing(doc, uid) == uid \in doc.followers

PostsOf(c) == { p \in posts : p.communityId = c }

----------------------------------------------------------------------------
(* routes/communities *)

Bodies == { [name |-> "Robotics", description |-> "robots", category |-> "Technical"] }

\* !name || !description || !category
MissingFields(body) == body.name = "" \/ body.description = "" \/ body.category = ""

\* (a community that starts without followers)
CommunityDocNoFollowers(uid, body) ==
  [exists |-> TRUE, name |-> body.name, followers |-> {}, admin |-> uid, postCount |-> 0]

\* communityData: followers: [uid], admin: uid, postCount: 0
CommunityDoc(uid, body) ==
  [exists |-> TRUE, name |-> body.name, followers |-> {uid}, admin |-> uid, postCount |-> 0]

\* POST /: communityData and collection('communities').add
CreateCommunity(uid, c, body) ==
  /\ ~MissingFields(body)
  /\ ~communities[c].exists
  /\ communities' = [communities EXCEPT ![c] = CommunityDoc(uid, body)]
  /\ UNCHANGED <<posts, postSeq, groups, clock>>
  /\ UNCHANGED <<resVars, clientVars, feedVars>>
  /\ UNCHANGED <<otpVars, authVars, extVars>>

\* POST /:communityId/follow up to the update: communityRef.get() has resolved
FollowRead(r, uid, c) ==
  /\ Arrives(r)
  /\ rreq' = [rreq EXCEPT ![r] = [kind |-> "follow", uid |-> uid, target |-> c, text |-> ""]]
  /\ IF ~communities[c].exists
       THEN /\ rresp' = [rresp EXCEPT ![r] = Answer(404, "Community not found")]
            /\ rpc' = [rpc EXCEPT ![r] = "done"]
            /\ UNCHANGED rdoc
       ELSE /\ rdoc' = [rdoc EXCEPT ![r] = communities[c]]
            /\ rpc' = [rpc EXCEPT ![r] = "follow"]
            /\ UNCHANGED rresp
  /\ UNCHANGED postRef
  /\ UNCHANGED <<storeVars, clientVars, feedVars>>
  /\ UNCHANGED <<otpVars, authVars, extVars>>

\* FieldValue.arrayRemove(uid) when the handler read isFollowing, else arrayUnion(uid)
ToggleFollowers(followers, uid, isFollowing) ==
  IF isFollowing THEN followers \ {uid} ELSE followers \cup {uid}

\* the update of the follower array, and the response
FollowUpdate(r) ==
  /\ rpc[r] = "follow"
  /\ LET uid == rreq[r].uid
         c   == rreq[r].target
         isFollowing == IsFollowing(rdoc[r], uid)
     IN /\ communities' = [communities EXCEPT
             ![c].followers = ToggleFollowers(@, uid, isFollowing)]
        /\ rresp' = [rresp EXCEPT ![r] =
             IF isFollowing THEN FollowAnswer("Unfollowed community", FALSE)
                            ELSE FollowAnswer("Following community", TRUE)]
  /\ rpc' = [rpc EXCEPT ![r] = "done"]
  /\ rdoc' = [rdoc EXCEPT ![r] = NoDoc]
  /\ UNCHANGED <<posts, postSeq, groups, clock, rreq, postRef>>
  /\ UNCHANGED <<clientVars, feedVars>>
  /\ UNCHANGED <<otpVars, authVars, extVars>>

Texts == {"hi", ""}

\* !text && images.length === 0, with no images
NoContent(text) == text = ""

\* (a variant that lets every caller post)
MayPostAnyone(doc, uid) == TRUE

\* communityData.followers?.includes(uid)
MayPost(doc, uid) == IsFollowing(doc, uid)

\* POST /:communityId/posts up to the add: the body check and the follower check
PostRead(r, uid, c, text) ==
  /\ Arrives(r)
  /\ rreq' = [rreq EXCEPT ![r] = [kind |-> "post", uid |-> uid, target |-> c, text |-> text]]
  /\ IF NoContent(text)
       THEN /\ rresp' = [rresp EXCEPT ![r] = Answer(400, "Post content is required")]
            /\ rpc' = [rpc EXCEPT ![r] = "done"]
       ELSE IF ~communities[c].exists
                 THEN /\ rresp' = [rresp EXCEPT ![r] = Answer(404, "Community not found")]
                      /\ rpc' = [rpc EXCEPT ![r] = "done"]
                 ELSE IF ~MayPost(communities[c], uid)
                 THEN /\ rresp' = [rresp EXCEPT ![r] = Answer(403, "Must follow community to post")]
                      /\ rpc' = [rpc EXCEPT ![r] = "done"]
                 ELSE /\ rpc' = [rpc EXCEPT ![r] = "add"]
                      /\ UNCHANGED rresp
  /\ UNCHANGED <<rdoc, postRef>>
  /\ UNCHANGED <<storeVars, clientVars, feedVars>>
  /\ UNCHANGED <<otpVars, authVars, extVars>>

\* postData; byFollower is history: the author was a follower when the document was written
PostDoc(id, c, text, uid, byFollower) ==
  [id |-> id, communityId |-> c, text |-> text, author |-> uid,
   timestamp |-> clock, likes |-> {}, byFollower |-> byFollower]

\* collection('posts').add(postData)
PostAdd(r) ==
  /\ rpc[r] = "add"
  /\ LET uid == rreq[r].uid
         c   == rreq[r].target
     IN posts' = posts \cup
          { PostDoc(postSeq + 1, c, rreq[r].text, uid, IsFollowing(communities[c], uid)) }
  /\ postSeq' = postSeq + 1
  /\ postRef' = [postRef EXCEPT ![r] = postSeq + 1]
  /\ rpc' = [rpc EXCEPT ![r] = "count"]
  /\ UNCHANGED <<communities, groups, clock, rreq, rdoc, rresp>>
  /\ UNCHANGED <<clientVars, feedVars>>
  /\ UNCHANGED <<otpVars, authVars, extVars>>

\* FieldValue.increment(1)
Increment(n) == n + 1

\* the update of postCount, and the response
PostIncrement(r) ==
  /\ rpc[r] = "count"
  /\ communities' = [communities EXCEPT ![rreq[r].target].postCount = Increment(@)]
  /\ rresp' = [rresp EXCEPT ![r] = Answer(200, "Post created successfully")]
  /\ rpc' = [rpc EXCEPT ![r] = "done"]
  /\ UNCHANGED <<posts, postSeq, groups, clock, rreq, rdoc, postRef>>
  /\ UNCHANGED <<clientVars, feedVars>>
  /\ UNCHANGED <<otpVars, authVars, extVars>>

----------------------------------------------------------------------------
(* The community page of the client, open on community c for user uid: it  *)
(* writes to the document store itself.                                     *)

\* fetchCommunity: getDoc and setCommunity, when the page is mounted
FetchCommunity(c) ==
  /\ cpc = "idle"
  /\ communities[c].exists
  /\ community' = communities[c]
  /\ UNCHANGED cpc
  /\ UNCHANGED <<storeVars, resVars, feedVars>>
  /\ UNCHANGED <<otpVars, authVars, extVars>>

\* handleCreatePost up to the update: the form is rendered when isFollowing; addDoc
HandleCreatePost(uid, c, text) ==
  /\ cpc = "idle"
  /\ community.exists /\ IsFollowing(community, uid)
  /\ text # ""
  /\ postSeq < MaxPosts
  /\ posts' = posts \cup { PostDoc(postSeq + 1, c, text, uid, IsFollowing(communities[c], uid)) }
  /\ postSeq' = postSeq + 1
  /\ cpc' = "created"
  /\ UNCHANGED <<communities, groups, clock, community>>
  /\ UNCHANGED <<resVars, feedVars>>
  /\ UNCHANGED <<otpVars, authVars, extVars>>

\* updateDoc(..., { postCount: community!.postCount + 1 })
CreatePostCount(c) ==
  /\ cpc = "created"
  /\ communities' = [communities EXCEPT ![c].postCount = community.postCount + 1]
  /\ cpc' = "idle"
  /\ UNCHANGED <<posts, postSeq, groups, clock, community>>
  /\ UNCHANGED <<resVars, feedVars>>
  /\ UNCHANGED <<otpVars, authVars, extVars>>

\* handleDeletePost up to the update: the button is rendered on the user's posts; deleteDoc
HandleDeletePost(uid, p) ==
  /\ cpc = "idle"
  /\ community.exists
  /\ p \in posts /\ p.author = uid
  /\ posts' = posts \ {p}
  /\ cpc' = "deleted"
  /\ UNCHANGED <<communities, postSeq, groups, clock, community>>
  /\ UNCHANGED <<resVars, feedVars>>
  /\ UNCHANGED <<otpVars, authVars, extVars>>

\* updateDoc(..., { postCount: community.postCount - 1 })
DeletePostCount(c) ==
  /\ cpc = "deleted"
  /\ communities' = [communities EXCEPT ![c].postCount = community.postCount - 1]
  /\ cpc' = "idle"
  /\ UNCHANGED <<posts, postSeq, groups, clock, community>>
  /\ UNCHANGED <<resVars, feedVars>>
  /\ UNCHANGED <<otpVars, authVars, extVars>>

\* handleFollowToggle: one updateDoc with arrayRemove or arrayUnion, from the rendered isFollowing
HandleFollowToggle(uid, c, isFollowing) ==
  /\ communities[c].exists
  /\ communities' = [communities EXCEPT ![c].followers = ToggleFollowers(@, uid, isFollowing)]
  /\ UNCHANGED <<posts, postSeq, groups, clock>>
  /\ UNCHANGED <<resVars, clientVars, feedVars>>
  /\ UNCHANGED <<otpVars, authVars, extVars>>

\* handleLike: one updateDoc with arrayRemove or arrayUnion, from the rendered isLiked
HandleLike(uid, p, isLiked) ==
  /\ p \in posts
  /\ posts' = (posts \ {p}) \cup
       { [p EXCEPT !.likes = IF isLiked THEN @ \ {uid} ELSE @ \cup {uid}] }
  /\ UNCHANGED <<communities, postSeq, groups, clock>>
  /\ UNCHANGED <<resVars, clientVars, feedVars>>
  /\ UNCHANGED <<otpVars, authVars, extVars>>

\* a day passes
TickDay ==
  /\ clock < MaxClock
  /\ clock' = clock + 1
  /\ UNCHANGED <<communities, posts, postSeq, groups>>
  /\ UNCHANGED <<resVars, clientVars, feedVars>>
  /\ UNCHANGED <<otpVars, authVars, extVars>>

----------------------------------------------------------------------------
(* routes/groups, and the groups pages of the client *)

GroupBodies == { [name |-> "Chess", description |-> "chess club"] }

\* groupData: members: [uid], admin: uid
GroupDoc(uid) == [exists |-> TRUE, members |-> {uid}, admin |-> uid]

\* POST /: !name || !description, then collection('groups').add
CreateGroup(uid, g, body) ==
  /\ body.name # "" /\ body.description # ""
  /\ ~groups[g].exists
  /\ groups' = [groups EXCEPT ![g] = GroupDoc(uid)]
  /\ UNCHANGED <<communities, posts, postSeq, clock>>
  /\ UNCHANGED <<resVars, clientVars, feedVars>>
  /\ UNCHANGED <<otpVars, authVars, extVars>>

\* handleCreateGroup of the groups page: addDoc(collection(db, 'groups'), groupData)
HandleCreateGroup(uid, g, body) ==
  /\ body.name # ""
  /\ ~groups[g].exists
  /\ groups' = [groups EXCEPT ![g] = GroupDoc(uid)]
  /\ UNCHANGED <<communities, posts, postSeq, clock>>
  /\ UNCHANGED <<resVars, clientVars, feedVars>>
  /\ UNCHANGED <<otpVars, authVars, extVars>>

\* POST /:groupId/join up to the update: groupRef.get() has resolved
JoinRead(r, uid, g) ==
  /\ Arrives(r)
  /\ rreq' = [rreq EXCEPT ![r] = [kind |-> "join", uid |-> uid, target |-> g, text |-> ""]]
  /\ IF ~groups[g].exists
       THEN /\ rresp' = [rresp EXCEPT ![r] = Answer(404, "Group not found")]
            /\ rpc' = [rpc EXCEPT ![r] = "done"]
       ELSE IF uid \in groups[g].members
       THEN /\ rresp' = [rresp EXCEPT ![r] = Answer(400, "Already a member of this group")]
            /\ rpc' = [rpc EXCEPT ![r] = "done"]
       ELSE /\ rpc' = [rpc EXCEPT ![r] = "join"]
            /\ UNCHANGED rresp
  /\ UNCHANGED <<rdoc, postRef>>
  /\ UNCHANGED <<storeVars, clientVars, feedVars>>
  /\ UNCHANGED <<otpVars, authVars, extVars>>

\* members: FieldValue.arrayUnion(uid), and the response
JoinUpdate(r) ==
  /\ rpc[r] = "join"
  /\ groups' = [groups EXCEPT ![rreq[r].target].members = @ \cup {rreq[r].uid}]
  /\ rresp' = [rresp EXCEPT ![r] = Answer(200, "Successfully joined group")]
  /\ rpc' = [rpc EXCEPT ![r] = "done"]
  /\ UNCHANGED <<communities, posts, postSeq, clock, rreq, rdoc, postRef>>
  /\ UNCHANGED <<clientVars, feedVars>>
  /\ UNCHANGED <<otpVars, authVars, extVars>>

\* POST /:groupId/leave up to the update: the member check, then the admin check
LeaveRead(r, uid, g) ==
  /\ Arrives(r)
  /\ rreq' = [rreq EXCEPT ![r] = [kind |-> "leave", uid |-> uid, target |-> g, text |-> ""]]
  /\ IF ~groups[g].exists
       THEN /\ rresp' = [rresp EXCEPT ![r] = Answer(404, "Group not found")]
            /\ rpc' = [rpc EXCEPT ![r] = "done"]
       ELSE IF uid \notin groups[g].members
       THEN /\ rresp' = [rresp EXCEPT ![r] = Answer(400, "Not a member of this group")]
            /\ rpc' = [rpc EXCEPT ![r] = "done"]
       ELSE IF groups[g].admin = uid
       THEN /\ rresp' = [rresp EXCEPT ![r] = Answer(400, "Admin cannot leave the group")]
            /\ rpc' = [rpc EXCEPT ![r] = "done"]
       ELSE /\ rpc' = [rpc EXCEPT ![r] = "leave"]
            /\ UNCHANGED rresp
  /\ UNCHANGED <<rdoc, postRef>>
  /\ UNCHANGED <<storeVars, clientVars, feedVars>>
  /\ UNCHANGED <<otpVars, authVars, extVars>>

\* members: FieldValue.arrayRemove(uid), and the response
LeaveUpdate(r) ==
  /\ rpc[r] = "leave"
  /\ groups' = [groups EXCEPT ![rreq[r].target].members = @ \ {rreq[r].uid}]
  /\ rresp' = [rresp EXCEPT ![r] = Answer(200, "Successfully left group")]
  /\ rpc' = [rpc EXCEPT ![r] = "done"]
  /\ UNCHANGED <<communities, posts, postSeq, clock, rreq, rdoc, postRef>>
  /\ UNCHANGED <<clientVars, feedVars>>
  /\ UNCHANGED <<otpVars, authVars, extVars>>

\* handleJoinGroup of the groups page: updateDoc(..., { members: arrayUnion(user.uid) })
HandleJoinGroup(uid, g) ==
  /\ groups[g].exists
  /\ groups' = [groups EXCEPT ![g].members = @ \cup {uid}]
  /\ UNCHANGED <<communities, posts, postSeq, clock>>
  /\ UNCHANGED <<resVars, clientVars, feedVars>>
  /\ UNCHANGED <<otpVars, authVars, extVars>>

\* handleLeaveGroup of the chat page: updateDoc(..., { members: arrayRemove(user.uid) })
HandleLeaveGroup(uid, g) ==
  /\ groups[g].exists
  /\ groups' = [groups EXCEPT ![g].members = @ \ {uid}]
  /\ UNCHANGED <<communities, posts, postSeq, clock>>
  /\ UNCHANGED <<resVars, clientVars, feedVars>>
  /\ UNCHANGED <<otpVars, authVars, extVars>>

----------------------------------------------------------------------------
(* routes/posts: GET /feed *)

\* 24 * 60 * 60 * 1000 ms, in ticks of the clock of the documents
OneDay == 1

\* const { limit = 20, offset = 0, filter = 'all' } = req.query
DefaultLimit  == 20
DefaultOffset == 0

RECURSIVE parseInt(_)
\* parseInt of a string of decimal digits
parseInt(s) == IF Len(s) = 0 THEN 0 ELSE 10 * parseInt(SubSeq(s, 1, Len(s) - 1)) + s[Len(s)]

Limit(q)  == parseInt(IF q.limit = Missing THEN toString(DefaultLimit) ELSE q.limit)
Offset(q) == parseInt(IF q.offset = Missing THEN toString(DefaultOffset) ELSE q.offset)
\* an absent filter is the empty string
NoFilter == ""

Filter(q) == IF q.filter = NoFilter THEN "all" ELSE q.filter

NoStart == [clock |-> 0, postSeq |-> 0]
NoQuery == [uid |-> "", limit |-> Missing, offset |-> Missing, filter |-> NoFilter]

\* (a variant that takes every community, as GET /trending does)
FollowedByAnyone(uid) == { c \in CommunityIds : communities[c].exists }

\* collection('communities').where('followers', 'array-contains', uid)
FollowedBy(uid) == { c \in CommunityIds : communities[c].exists /\ uid \in communities[c].followers }

\* communitiesSnapshot.docs.map(doc => doc.id), in the order of the document ids
DocIds(cs) == SelectSeq(IdOrder, LAMBDA c : c \in cs)

\* orderBy('timestamp', 'desc'): a later timestamp first, then the later document id
Newer(p, q) == p.timestamp > q.timestamp \/ (p.timestamp = q.timestamp /\ p.id > q.id)

RECURSIVE OrderByTimestampDesc(_)
OrderByTimestampDesc(ps) ==
  IF ps = {} THEN <<>>
  ELSE LET first == CHOOSE p \in ps : \A q \in ps \ {p} : Newer(p, q)
       IN <<first>> \o OrderByTimestampDesc(ps \ {first})

\* (a variant without the 24 hour condition)
WithinLastDayAlways(p, t) == TRUE

\* where('timestamp', '>=', oneDayAgo), oneDayAgo = Date.now() - 24 hours
WithinLastDay(p, t) == p.timestamp >= t - OneDay

\* (a variant without .limit)
TakeAll(s, n) == s

\* .limit(n)
Take(s, n) == SubSeq(s, 1, IF n < Len(s) THEN n ELSE Len(s))

\* the posts query of one community
QueryPosts(c, filter, t, n) ==
  Take(OrderByTimestampDesc({ p \in PostsOf(c) : filter = "trending" => WithinLastDay(p, t) }), n)

\* allPosts.push({ id, communityId, communityName, ...doc.data(), isLiked })
Annotated(p, uid) ==
  [id |-> p.id, communityId |-> p.communityId, communityName |-> communities[p.communityId].name,
   text |-> p.text, author |-> p.author, timestamp |-> p.timestamp, likes |-> p.likes,
   isLiked |-> uid \in p.likes]

AnnotateAll(s, uid) == [i \in 1 .. Len(s) |-> Annotated(s[i], uid)]

\* the comparators of allPosts.sort: likes length under trending, else timestamp
Compare(a, b, filter) ==
  IF filter = "trending" THEN Cardinality(b.likes) - Cardinality(a.likes)
                         ELSE b.timestamp - a.timestamp

RECURSIVE Insert(_, _, _)
\* x goes before the first element that compares after it (the sort is stable)
Insert(s, x, filter) ==
  IF s = <<>> THEN <<x>>
  ELSE IF Compare(s[1], x, filter) > 0 THEN <<x>> \o s
  ELSE <<s[1]>> \o Insert(Tail(s), x, filter)

RECURSIVE Sort(_, _)
\* Array.prototype.sort with the comparator of the filter
Sort(s, filter) ==
  IF s = <<>> THEN <<>> ELSE Insert(Sort(SubSeq(s, 1, Len(s) - 1), filter), s[Len(s)], filter)

\* allPosts.slice(offset, offset + limit)
Slice(s, offset, limit) ==
  SubSeq(s, offset + 1, IF offset + limit < Len(s) THEN offset + limit ELSE Len(s))

\* the handler up to the first posts query: the communities query has resolved
FeedStart(uid, q) ==
  /\ fpc = "idle"
  /\ freq' = [uid |-> uid, limit |-> q.limit, offset |-> q.offset, filter |-> q.filter]
  /\ fstart' = [clock |-> clock, postSeq |-> postSeq]
  /\ followedCommunityIds' = DocIds(FollowedBy(uid))
  /\ allPosts' = <<>>
  /\ IF FollowedBy(uid) = {}
       THEN /\ paginatedPosts' = <<>>
            /\ fpc' = "done"
            /\ fnext' = 0
       ELSE /\ fpc' = "fetch"
            /\ fnext' = 1
            /\ UNCHANGED paginatedPosts
  /\ UNCHANGED <<storeVars, resVars, clientVars>>
  /\ UNCHANGED <<otpVars, authVars, extVars>>

\* one pass of the loop: the posts query of a community has resolved; after
\* the last community the handler sorts, slices and responds
FeedFetch ==
  /\ fpc = "fetch"
  /\ LET c      == followedCommunityIds[fnext]
         docs   == QueryPosts(c, Filter(freq), clock, Limit(freq))
         merged == allPosts \o AnnotateAll(docs, freq.uid)
     IN IF fnext < Len(followedCommunityIds)
          THEN /\ allPosts' = merged
               /\ fnext' = fnext + 1
               /\ UNCHANGED <<fpc, paginatedPosts>>
          ELSE /\ allPosts' = Sort(merged, Filter(freq))
               /\ paginatedPosts' = Slice(allPosts', Offset(freq), Limit(freq))
               /\ fnext' = 0
               /\ fpc' = "done"
  /\ UNCHANGED <<freq, followedCommunityIds, fstart>>
  /\ UNCHANGED <<storeVars, resVars, clientVars>>
  /\ UNCHANGED <<otpVars, authVars, extVars>>

\* the page has been delivered
FeedFinish ==
  /\ fpc = "done"
  /\ fpc' = "idle"
  /\ freq' = NoQuery
  /\ followedCommunityIds' = <<>>
  /\ allPosts' = <<>>
  /\ paginatedPosts' = <<>>
  /\ fstart' = NoStart
  /\ UNCHANGED fnext
  /\ UNCHANGED <<storeVars, resVars, clientVars>>
  /\ UNCHANGED <<otpVars, authVars, extVars>>

----------------------------------------------------------------------------
(* routes/groups: the messages of a group *)

MaxMsgs == 1   \* message documents added in one run

MessagesLimit  == 50   \* const { limit = 50, offset = 0 } = req.query
MessagesOffset == 0

NoData == <<>>

NoLastMessage == [text |-> "", author |-> "", timestamp |-> 0, byMember |-> TRUE]

MessagesOf(g) == { m \in messages : m.groupId = g }

\* groupData.members.includes(uid)
IsMember(doc, uid) == uid \in doc.members

\* GET /:groupId/messages up to the messages query: the group document has been read
MessagesRead(r, uid, g) ==
  /\ Arrives(r)
  /\ rreq' = [rreq EXCEPT ![r] = [kind |-> "messages", uid |-> uid, target |-> g, text |-> ""]]
  /\ IF ~groups[g].exists
       THEN /\ rresp' = [rresp EXCEPT ![r] = Answer(404, "Group not found")]
            /\ rpc' = [rpc EXCEPT ![r] = "done"]
       ELSE IF ~IsMember(groups[g], uid)
       THEN /\ rresp' = [rresp EXCEPT ![r] = Answer(403, "Not a member of this group")]
            /\ rpc' = [rpc EXCEPT ![r] = "done"]
       ELSE /\ rpc' = [rpc EXCEPT ![r] = "query"]
            /\ UNCHANGED rresp
  /\ UNCHANGED <<rdoc, postRef>>
  /\ UNCHANGED <<storeVars, clientVars, feedVars>>
  /\ UNCHANGED <<otpVars, authVars, extVars>>

\* orderBy('timestamp', 'desc').limit(parseInt(limit)).offset(parseInt(offset)), res.json(messages)
MessagesQuery(r) ==
  /\ rpc[r] = "query"
  /\ rdata' = [rdata EXCEPT ![r] =
       Slice(OrderByTimestampDesc(MessagesOf(rreq[r].target)), MessagesOffset, MessagesLimit)]
  /\ rresp' = [rresp EXCEPT ![r] = Answer(200, "")]
  /\ rpc' = [rpc EXCEPT ![r] = "done"]
  /\ UNCHANGED <<rreq, rdoc, postRef>>
  /\ UNCHANGED <<storeVars, clientVars, feedVars>>
  /\ UNCHANGED <<otpVars, authVars>>
  /\ UNCHANGED <<msgVars, userVars, notifVars, searchVars, genVars, prior>>

\* POST /:groupId/messages up to the add: the body check, then the group document has been read
SendRead(r, uid, g, text) ==
  /\ Arrives(r)
  /\ msgSeq < MaxMsgs
  /\ rreq' = [rreq EXCEPT ![r] = [kind |-> "send", uid |-> uid, target |-> g, text |-> text]]
  /\ IF text = ""
       THEN /\ rresp' = [rresp EXCEPT ![r] = Answer(400, "Message content is required")]
            /\ rpc' = [rpc EXCEPT ![r] = "done"]
       ELSE IF ~groups[g].exists
       THEN /\ rresp' = [rresp EXCEPT ![r] = Answer(404, "Group not found")]
            /\ rpc' = [rpc EXCEPT ![r] = "done"]
       ELSE IF ~IsMember(groups[g], uid)
       THEN /\ rresp' = [rresp EXCEPT ![r] = Answer(403, "Not a member of this group")]
            /\ rpc' = [rpc EXCEPT ![r] = "done"]
       ELSE /\ rpc' = [rpc EXCEPT ![r] = "msgadd"]
            /\ UNCHANGED rresp
  /\ UNCHANGED <<rdoc, postRef>>
  /\ UNCHANGED <<storeVars, clientVars, feedVars>>
  /\ UNCHANGED <<otpVars, authVars, extVars>>

\* messageData; byMember is history: the author was in the member set when the document was written
MessageDoc(id, g, text, uid, byMember) ==
  [id |-> id, groupId |-> g, text |-> text, author |-> uid, timestamp |-> clock,
   byMember |-> byMember]

\* collection('messages').add(messageData)
MessageAdd(r) ==
  /\ rpc[r] = "msgadd"
  /\ msgSeq' = msgSeq + 1
  /\ messages' = messages \cup
       { MessageDoc(msgSeq + 1, rreq[r].target, rreq[r].text, rreq[r].uid,
                    IsMember(groups[rreq[r].target], rreq[r].uid)) }
  /\ rdata' = [rdata EXCEPT ![r] = <<msgSeq + 1>>]
  /\ rpc' = [rpc EXCEPT ![r] = "msglast"]
  /\ UNCHANGED <<lastMessage, rreq, rdoc, postRef, rresp>>
  /\ UNCHANGED <<storeVars, clientVars, feedVars>>
  /\ UNCHANGED <<otpVars, authVars>>
  /\ UNCHANGED <<userVars, notifVars, searchVars, genVars, prior>>

\* update({ lastMessage: { text, timestamp, author }, updatedAt }) and res.json({ id, message })
MessageLast(r) ==
  /\ rpc[r] = "msglast"
  /\ lastMessage' = [lastMessage EXCEPT ![rreq[r].target] =
       [text |-> rreq[r].text, author |-> rreq[r].uid, timestamp |-> clock,
        byMember |-> IsMember(groups[rreq[r].target], rreq[r].uid)]]
  /\ rresp' = [rresp EXCEPT ![r] = Answer(200, "Message sent successfully")]
  /\ rpc' = [rpc EXCEPT ![r] = "done"]
  /\ UNCHANGED <<messages, msgSeq, rdata, rreq, rdoc, postRef>>
  /\ UNCHANGED <<storeVars, clientVars, feedVars>>
  /\ UNCHANGED <<otpVars, authVars>>
  /\ UNCHANGED <<userVars, notifVars, searchVars, genVars, prior>>

----------------------------------------------------------------------------
(* routes/communities: the create request with its reply, and get-by-id *)

\* req.body of POST /communities: the full body, and the bodies that lack one field
CreateBodies ==
  Bodies \cup { [name |-> "", description |-> "robots", category |-> "Technical"],
                [name |-> "Robotics", description |-> "", category |-> "Technical"],
                [name |-> "Robotics", description |-> "robots", category |-> ""] }

\* POST /: the field check, collection('communities').add(communityData), res.json({ id, message })
CreateCommunityRequest(r, uid, c, body) ==
  /\ Arrives(r)
  /\ rreq' = [rreq EXCEPT ![r] = [kind |-> "create", uid |-> uid, target |-> c, text |-> ""]]
  /\ IF MissingFields(body)
       THEN /\ rresp' = [rresp EXCEPT ![r] = Answer(400, "Name, description, and category are required")]
            /\ UNCHANGED <<communities, rdata>>
       ELSE /\ ~communities[c].exists
            /\ communities' = [communities EXCEPT ![c] = CommunityDoc(uid, body)]
            /\ rresp' = [rresp EXCEPT ![r] = Answer(200, "Community created successfully")]
            /\ rdata' = [rdata EXCEPT ![r] = <<c>>]
  /\ rpc' = [rpc EXCEPT ![r] = "done"]
  /\ UNCHANGED <<posts, postSeq, groups, clock, rdoc, postRef>>
  /\ UNCHANGED <<clientVars, feedVars>>
  /\ UNCHANGED <<otpVars, authVars>>
  /\ UNCHANGED <<msgVars, userVars, notifVars, searchVars, genVars, prior>>

\* GET /:communityId: res.json({ id, ...communityData, isFollowing })
GetCommunity(r, uid, c) ==
  /\ Arrives(r)
  /\ rreq' = [rreq EXCEPT ![r] = [kind |-> "get", uid |-> uid, target |-> c, text |-> ""]]
  /\ IF ~communities[c].exists
       THEN /\ rresp' = [rresp EXCEPT ![r] = Answer(404, "Community not found")]
            /\ UNCHANGED rdata
       ELSE /\ rresp' = [rresp EXCEPT ![r] = FollowAnswer("", IsFollowing(communities[c], uid))]
            /\ rdata' = [rdata EXCEPT ![r] = <<communities[c]>>]
  /\ rpc' = [rpc EXCEPT ![r] = "done"]
  /\ UNCHANGED <<rdoc, postRef>>
  /\ UNCHANGED <<storeVars, clientVars, feedVars>>
  /\ UNCHANGED <<otpVars, authVars>>
  /\ UNCHANGED <<msgVars, userVars, notifVars, searchVars, genVars, prior>>

----------------------------------------------------------------------------
(* routes/posts: GET /search. Texts and queries are sequences of characters *)

NoSearch == [uid |-> "", q |-> Missing, limit |-> Missing, offset |-> Missing]

MaxSearchPosts == 2   \* post documents in the store of the search runs

\* String.prototype.toLowerCase on one character
LowerChar(ch) ==
  CASE ch = "A" -> "a"
    [] ch = "B" -> "b"
    [] OTHER -> ch

\* s.toLowerCase()
toLowerCase(s) == [i \in 1 .. Len(s) |-> LowerChar(s[i])]

RECURSIVE trimStart(_)
trimStart(s) == IF s # <<>> /\ s[1] = " " THEN trimStart(Tail(s)) ELSE s

RECURSIVE trimEnd(_)
trimEnd(s) == IF s # <<>> /\ s[Len(s)] = " " THEN trimEnd(SubSeq(s, 1, Len(s) - 1)) ELSE s

\* s.trim()
trim(s) == trimEnd(trimStart(s))

\* (a variant that looks at the start of the text only)
startsWith(text, term) ==
  Len(term) <= Len(text) /\ SubSeq(text, 1, Len(term)) = term

\* text.includes(term)
includes(text, term) ==
  \E i \in 1 .. Len(text) - Len(term) + 1 : SubSeq(text, i, i + Len(term) - 1) = term

\* !q || q.trim().length < 2
QueryTooShort(q) == q = Missing \/ Len(trim(q)) < 2

\* const searchTerm = q.toLowerCase().trim()
SearchTerm(q) == trim(toLowerCase(q))

\* postData.text?.toLowerCase() || '' and text.includes(searchTerm)
Matches(p, term) == includes(toLowerCase(p.text), term)

\* communitiesSnapshot.docs: every community, in the order of the document ids
AllCommunities == { c \in CommunityIds : communities[c].exists }

RECURSIVE Select(_, _)
\* the elements of s that match the term, in the order of s
Select(s, term) ==
  IF s = <<>> THEN <<>>
  ELSE IF Matches(s[1], term) THEN <<s[1]>> \o Select(Tail(s), term)
  ELSE Select(Tail(s), term)

\* the posts query of one community and the forEach that keeps the matches
MatchesOf(c, term, uid) ==
  AnnotateAll(Select(OrderByTimestampDesc(PostsOf(c)), term), uid)

\* the handler up to the first posts query: the query check, then the communities query has resolved
SearchStart(uid, q) ==
  /\ spc = "idle"
  /\ sreq' = [uid |-> uid, q |-> q.q, limit |-> q.limit, offset |-> q.offset]
  /\ matchingPosts' = <<>>
  /\ IF QueryTooShort(q.q)
       THEN /\ sstatus' = 400
            /\ spc' = "done"
            /\ UNCHANGED <<communitiesSnapshot, snext, searchPage>>
       ELSE /\ communitiesSnapshot' = DocIds(AllCommunities)
            /\ IF AllCommunities = {}
                 THEN /\ searchPage' = <<>>
                      /\ sstatus' = 200
                      /\ spc' = "done"
                      /\ snext' = 0
                 ELSE /\ spc' = "fetch"
                      /\ snext' = 1
                      /\ UNCHANGED <<searchPage, sstatus>>
  /\ UNCHANGED <<storeVars, resVars, clientVars, feedVars>>
  /\ UNCHANGED <<otpVars, authVars>>
  /\ UNCHANGED <<msgVars, rdata, userVars, notifVars, genVars, prior>>

\* one pass of the loop: the posts query of a community has resolved; after
\* the last community the handler sorts by timestamp, slices and responds
SearchFetch ==
  /\ spc = "fetch"
  /\ LET c      == communitiesSnapshot[snext]
         merged == matchingPosts \o MatchesOf(c, SearchTerm(sreq.q), sreq.uid)
     IN IF snext < Len(communitiesSnapshot)
          THEN /\ matchingPosts' = merged
               /\ snext' = snext + 1
               /\ UNCHANGED <<spc, searchPage, sstatus>>
          ELSE /\ matchingPosts' = Sort(merged, "all")
               /\ searchPage' = Slice(matchingPosts', Offset(sreq), Limit(sreq))
               /\ sstatus' = 200
               /\ snext' = 0
               /\ spc' = "done"
  /\ UNCHANGED <<sreq, communitiesSnapshot>>
  /\ UNCHANGED <<storeVars, resVars, clientVars, feedVars>>
  /\ UNCHANGED <<otpVars, authVars>>
  /\ UNCHANGED <<msgVars, rdata, userVars, notifVars, genVars, prior>>

\* the response has been delivered
SearchFinish ==
  /\ spc = "done"
  /\ spc' = "idle"
  /\ sreq' = NoSearch
  /\ communitiesSnapshot' = <<>>
  /\ matchingPosts' = <<>>
  /\ searchPage' = <<>>
  /\ sstatus' = 0
  /\ UNCHANGED snext
  /\ UNCHANGED <<storeVars, resVars, clientVars, feedVars>>
  /\ UNCHANGED <<otpVars, authVars>>
  /\ UNCHANGED <<msgVars, rdata, userVars, notifVars, genVars, prior>>

----------------------------------------------------------------------------
(* routes/users: the profile, the notifications and the bookmarks of the caller *)

MaxBookmarks == 1   \* bookmark documents added in one run

ListLimit  == 50   \* const { limit = 50, offset = 0 } = req.query
ListOffset == 0

NotificationIds == {1, 2}
PostIds         == {1}
Names           == {"Ann"}

\* a document of collection users, kept under the uid of its owner
ProfileDoc(uid, name) == [exists |-> TRUE, uid |-> uid, name |-> name]

\* (a variant that finds a notification by its id under any user)
NotificationsAtAnyUser(uid, nid) == { n \in userNotifications : n.id = nid }

\* collection('users').doc(uid).collection('notifications').doc(notificationId)
NotificationsAt(uid, nid) == { n \in userNotifications : n.owner = uid /\ n.id = nid }

\* collection('users').doc(uid).collection('notifications')
NotificationsOf(uid) == { n \in userNotifications : n.owner = uid }

\* collection('users').doc(uid).collection('bookmarks')
BookmarksOf(uid) == { b \in userBookmarks : b.owner = uid }

MarkRead(ns) == { [n EXCEPT !.read = TRUE] : n \in ns }

UserRequest(kind, uid, target) == [kind |-> kind, uid |-> uid, target |-> target, text |-> ""]

\* what the users handlers leave alone
UsersFrame ==
  /\ UNCHANGED <<rdoc, postRef>>
  /\ UNCHANGED <<storeVars, clientVars, feedVars>>
  /\ UNCHANGED <<otpVars, authVars>>
  /\ UNCHANGED <<msgVars, notifVars, searchVars, genVars, prior>>

\* GET /profile
GetProfile(r, uid) ==
  /\ Arrives(r)
  /\ rreq' = [rreq EXCEPT ![r] = UserRequest("profile", uid, 0)]
  /\ IF ~userDocs[uid].exists
       THEN /\ rresp' = [rresp EXCEPT ![r] = Answer(404, "User profile not found")]
            /\ UNCHANGED rdata
       ELSE /\ rresp' = [rresp EXCEPT ![r] = Answer(200, "")]
            /\ rdata' = [rdata EXCEPT ![r] = <<userDocs[uid]>>]
  /\ rpc' = [rpc EXCEPT ![r] = "done"]
  /\ UNCHANGED userVars
  /\ UsersFrame

\* PUT /profile: doc(uid).update(updateData) rejects when the document is absent
UpdateProfile(r, uid, name) ==
  /\ Arrives(r)
  /\ rreq' = [rreq EXCEPT ![r] = UserRequest("update", uid, 0)]
  /\ IF ~userDocs[uid].exists
       THEN /\ rresp' = [rresp EXCEPT ![r] = Answer(500, "Failed to update profile")]
            /\ UNCHANGED userDocs
       ELSE /\ userDocs' = [userDocs EXCEPT ![uid].name = name]
            /\ rresp' = [rresp EXCEPT ![r] = Answer(200, "Profile updated successfully")]
  /\ rpc' = [rpc EXCEPT ![r] = "done"]
  /\ UNCHANGED <<userNotifications, userBookmarks, bookmarkSeq, rdata>>
  /\ UsersFrame

\* GET /notifications
GetNotifications(r, uid) ==
  /\ Arrives(r)
  /\ rreq' = [rreq EXCEPT ![r] = UserRequest("notifications", uid, 0)]
  /\ rdata' = [rdata EXCEPT ![r] =
       Slice(OrderByTimestampDesc(NotificationsOf(uid)), ListOffset, ListLimit)]
  /\ rresp' = [rresp EXCEPT ![r] = Answer(200, "")]
  /\ rpc' = [rpc EXCEPT ![r] = "done"]
  /\ UNCHANGED userVars
  /\ UsersFrame

\* PUT /notifications/:notificationId/read: update rejects when the document is absent
MarkNotificationRead(r, uid, nid) ==
  /\ Arrives(r)
  /\ rreq' = [rreq EXCEPT ![r] = UserRequest("read", uid, nid)]
  /\ IF NotificationsAt(uid, nid) = {}
       THEN /\ rresp' = [rresp EXCEPT ![r] = Answer(500, "Failed to mark notification as read")]
            /\ UNCHANGED userNotifications
       ELSE /\ userNotifications' =
                 (userNotifications \ NotificationsAt(uid, nid)) \cup MarkRead(NotificationsAt(uid, nid))
            /\ rresp' = [rresp EXCEPT ![r] = Answer(200, "Notification marked as read")]
  /\ rpc' = [rpc EXCEPT ![r] = "done"]
  /\ UNCHANGED <<userDocs, userBookmarks, bookmarkSeq, rdata>>
  /\ UsersFrame

\* PUT /notifications/read-all up to the batch: the query where('read', '==', false) has resolved
ReadAllQuery(r, uid) ==
  /\ Arrives(r)
  /\ rreq' = [rreq EXCEPT ![r] = UserRequest("read-all", uid, 0)]
  /\ rdata' = [rdata EXCEPT ![r] =
       OrderByTimestampDesc({ n \in NotificationsOf(uid) : ~n.read })]
  /\ rpc' = [rpc EXCEPT ![r] = "commit"]
  /\ UNCHANGED rresp
  /\ UNCHANGED userVars
  /\ UsersFrame

\* batch.commit(): every document of the snapshot gets read: true
ReadAllCommit(r) ==
  /\ rpc[r] = "commit"
  /\ LET refs == { n \in userNotifications :
                     \E i \in 1 .. Len(rdata[r]) :
                       n.owner = rdata[r][i].owner /\ n.id = rdata[r][i].id }
     IN userNotifications' = (userNotifications \ refs) \cup MarkRead(refs)
  /\ rresp' = [rresp EXCEPT ![r] = Answer(200, "All notifications marked as read")]
  /\ rpc' = [rpc EXCEPT ![r] = "done"]
  /\ rdata' = [rdata EXCEPT ![r] = NoData]
  /\ UNCHANGED <<userDocs, userBookmarks, bookmarkSeq, rreq>>
  /\ UsersFrame

\* GET /bookmarks
GetBookmarks(r, uid) ==
  /\ Arrives(r)
  /\ rreq' = [rreq EXCEPT ![r] = UserRequest("bookmarks", uid, 0)]
  /\ rdata' = [rdata EXCEPT ![r] =
       Slice(OrderByTimestampDesc(BookmarksOf(uid)), ListOffset, ListLimit)]
  /\ rresp' = [rresp EXCEPT ![r] = Answer(200, "")]
  /\ rpc' = [rpc EXCEPT ![r] = "done"]
  /\ UNCHANGED userVars
  /\ UsersFrame

\* POST /bookmarks: collection('bookmarks').add(bookmarkData)
AddBookmark(r, uid, postId) ==
  /\ Arrives(r)
  /\ bookmarkSeq < MaxBookmarks
  /\ rreq' = [rreq EXCEPT ![r] = UserRequest("bookmark", uid, postId)]
  /\ bookmarkSeq' = bookmarkSeq + 1
  /\ userBookmarks' = userBookmarks \cup
       { [owner |-> uid, id |-> bookmarkSeq + 1, postId |-> postId, timestamp |-> clock] }
  /\ rresp' = [rresp EXCEPT ![r] = Answer(200, "Bookmark added successfully")]
  /\ rpc' = [rpc EXCEPT ![r] = "done"]
  /\ UNCHANGED <<userDocs, userNotifications, rdata>>
  /\ UsersFrame

\* DELETE /bookmarks/:bookmarkId: delete() resolves when the document is absent, too
RemoveBookmark(r, uid, bid) ==
  /\ Arrives(r)
  /\ rreq' = [rreq EXCEPT ![r] = UserRequest("unbookmark", uid, bid)]
  /\ userBookmarks' = { b \in userBookmarks : ~(b.owner = uid /\ b.id = bid) }
  /\ rresp' = [rresp EXCEPT ![r] = Answer(200, "Bookmark removed successfully")]
  /\ rpc' = [rpc EXCEPT ![r] = "done"]
  /\ UNCHANGED <<userDocs, userNotifications, bookmarkSeq, rdata>>
  /\ UsersFrame

----------------------------------------------------------------------------
(* useNotificationStore of the client and the Notifications page that drives it *)

MaxNotifs == 2   \* notifications the client store holds in one run

\* the user of the client pages
PageUser == "u1"

\* the fields of a Notification the store looks at
NotificationItems == [id : NotificationIds, read : BOOLEAN]

NotificationLists == UNION { [1 .. n -> NotificationItems] : n \in 0 .. MaxNotifs }

\* pending calls of the page: the handler and the id it was given
MarkCall(id) == [handler |-> "handleMarkAsRead", id |-> id]
MarkAllCall  == [handler |-> "handleMarkAllAsRead", id |-> 0]

MathMax(a, b) == IF a >= b THEN a ELSE b

\* notifications.filter(n => !n.read)
filterUnread(ns) == SelectSeq(ns, LAMBDA n : ~n.read)

\* setNotifications: (notifications) => set({...})
setNotifications(ns) ==
  /\ notifications' = ns
  /\ unreadCount' = Len(filterUnread(ns))

\* addNotification: (notification) => set((state) => ({...}))
addNotification(n) ==
  /\ notifications' = <<n>> \o notifications
  /\ unreadCount' = unreadCount + 1

\* markAsRead: (notificationId) => set((state) => ({...}))
markAsRead(id) ==
  /\ notifications' =
       [i \in DOMAIN notifications |->
          IF notifications[i].id = id
            THEN [notifications[i] EXCEPT !.read = TRUE]
            ELSE notifications[i]]
  /\ unreadCount' = MathMax(0, unreadCount - 1)

\* markAllAsRead: () => set((state) => ({...}))
markAllAsRead ==
  /\ notifications' = [i \in DOMAIN notifications |-> [notifications[i] EXCEPT !.read = TRUE]]
  /\ unreadCount' = 0

\* snapshot.docs.map(doc => ({id: doc.id, ...doc.data()})) of the listener's query
SnapshotOf(uid) ==
  LET docs == OrderByTimestampDesc(NotificationsOf(uid))
  IN [i \in DOMAIN docs |-> [id |-> docs[i].id, read |-> docs[i].read]]

\* what the client steps leave alone
NotifFrame ==
  /\ UNCHANGED <<userDocs, userBookmarks, bookmarkSeq>>
  /\ UNCHANGED <<otpVars, authVars>>
  /\ UNCHANGED <<storeVars, resVars, clientVars, feedVars>>
  /\ UNCHANGED <<msgVars, rdata, searchVars, genVars, prior>>

\* a caller of the store replaces the list
StoreSet(ns) ==
  /\ setNotifications(ns)
  /\ UNCHANGED <<npc, userNotifications>>
  /\ NotifFrame

\* a caller of the store adds one notification
StoreAdd(n) ==
  /\ Len(notifications) < MaxNotifs
  /\ addNotification(n)
  /\ UNCHANGED <<npc, userNotifications>>
  /\ NotifFrame

\* a caller of the store marks one id
StoreMarkAsRead(id) ==
  /\ markAsRead(id)
  /\ UNCHANGED <<npc, userNotifications>>
  /\ NotifFrame

\* a caller of the store marks every notification
StoreMarkAllAsRead ==
  /\ markAllAsRead
  /\ UNCHANGED <<npc, userNotifications>>
  /\ NotifFrame

\* the onSnapshot listener of the page fires with the documents of the user
OnSnapshot ==
  /\ setNotifications(SnapshotOf(PageUser))
  /\ UNCHANGED <<npc, userNotifications>>
  /\ NotifFrame

\* handleMarkAsRead up to its await: updateDoc rejects when the document is
\* absent, and the catch block only shows a toast
HandleMarkAsRead(id) ==
  /\ MarkCall(id) \notin npc
  /\ IF NotificationsAt(PageUser, id) = {}
       THEN UNCHANGED <<userNotifications, npc>>
       ELSE /\ userNotifications' =
                 (userNotifications \ NotificationsAt(PageUser, id))
                   \cup MarkRead(NotificationsAt(PageUser, id))
            /\ npc' = npc \cup {MarkCall(id)}
  /\ UNCHANGED <<notifications, unreadCount>>
  /\ NotifFrame

\* handleMarkAsRead after updateDoc resolved: markAsRead(notificationId)
MarkAsReadResolved(id) ==
  /\ MarkCall(id) \in npc
  /\ markAsRead(id)
  /\ npc' = npc \ {MarkCall(id)}
  /\ UNCHANGED userNotifications
  /\ NotifFrame

\* handleMarkAllAsRead up to its await: one updateDoc per unread notification
\* of the store; Promise.all rejects when one of the documents is absent
HandleMarkAllAsRead ==
  /\ MarkAllCall \notin npc
  /\ LET ids  == { notifications[i].id : i \in { j \in DOMAIN notifications : ~notifications[j].read } }
         refs == { n \in NotificationsOf(PageUser) : n.id \in ids }
     IN /\ userNotifications' = (userNotifications \ refs) \cup MarkRead(refs)
        /\ npc' = IF \A id \in ids : NotificationsAt(PageUser, id) # {}
                    THEN npc \cup {MarkAllCall}
                    ELSE npc
  /\ UNCHANGED <<notifications, unreadCount>>
  /\ NotifFrame

\* handleMarkAllAsRead after Promise.all resolved: markAllAsRead()
MarkAllAsReadResolved ==
  /\ MarkAllCall \in npc
  /\ markAllAsRead
  /\ npc' = npc \ {MarkAllCall}
  /\ UNCHANGED userNotifications
  /\ NotifFrame

----------------------------------------------------------------------------
(* The initial state *)

StoreInit ==
  /\ communities = [c \in CommunityIds |-> NoDoc]
  /\ posts = {}
  /\ postSeq = 0
  /\ groups = [g \in GroupIds |-> NoDoc]
  /\ clock = 0

HandlersInit ==
  /\ rpc = [r \in ResReqs |-> "idle"]
  /\ rreq = [r \in ResReqs |-> NoRequest]
  /\ rdoc = [r \in ResReqs |-> NoDoc]
  /\ postRef = [r \in ResReqs |-> 0]
  /\ rresp = [r \in ResReqs |-> NoAnswer]
  /\ community = NoDoc
  /\ cpc = "idle"
  /\ fpc = "idle"
  /\ freq = NoQuery
  /\ followedCommunityIds = <<>>
  /\ fnext = 0
  /\ allPosts = <<>>
  /\ paginatedPosts = <<>>
  /\ fstart = NoStart

AppInit == StoreInit /\ HandlersInit

UsersInit ==
  /\ userDocs = [u \in Users |-> NoDoc]
  /\ userNotifications = {}
  /\ userBookmarks = {}
  /\ bookmarkSeq = 0

ClientInit ==
  /\ messages = {}
  /\ msgSeq = 0
  /\ lastMessage = [g \in GroupIds |-> NoLastMessage]
  /\ rdata = [r \in ResReqs |-> NoData]
  /\ notifications = <<>>
  /\ unreadCount = 0
  /\ npc = {}
  /\ spc = "idle"
  /\ sreq = NoSearch
  /\ communitiesSnapshot = <<>>
  /\ snext = 0
  /\ matchingPosts = <<>>
  /\ searchPage = <<>>
  /\ sstatus = 0
  /\ drawn = {}
  /\ codes = {}
  /\ prior = [r \in Reqs |-> NoRecord]

ExtInit == UsersInit /\ ClientInit

----------------------------------------------------------------------------
(* The initial state and the specifications of the OTP routes *)

OtpInit ==
  /\ otpStorage = [e \in EmailInputs |-> NoRecord]
  /\ now = 0
  /\ users = {}
  /\ pc = [r \in Reqs |-> "idle"]
  /\ req = [r \in Reqs |-> NoReq]
  /\ resp = [r \in Reqs |-> NoResp]
  /\ storedData = [r \in Reqs |-> NoRecord]
  /\ sweepDue = FALSE
  /\ issued = [e \in EmailInputs |-> <<>>]
  /\ stale = {}
  /\ swept = {}

AuthInit ==
  /\ apc = [r \in Reqs |-> "idle"]
  /\ areq = [r \in Reqs |-> NoCall]
  /\ auser = [r \in Reqs |-> NoUser]
  /\ aresp = [r \in Reqs |-> 0]
  /\ accessed = [r \in Reqs |-> FALSE]

Init == OtpInit /\ AuthInit /\ AppInit /\ ExtInit

\* one request at a time, on every email input
Next ==
  \/ \E e \in EmailInputs, rnd \in RandomValues : SendOtpStart(1, e, rnd)
  \/ SendMailOk(1)
  \/ SendMailFail(1)
  \/ \E e \in EmailInputs, o \in OtpInputs : VerifyOtpStart(1, e, o)
  \/ LookupFound(1)
  \/ LookupThrows(1)
  \/ CreateUserOk(1)
  \/ CreateUserFail(1)
  \/ MintOk(1)
  \/ MintFail(1)
  \/ Recycle(1)
  \/ Sweep
  \/ Tick

Spec == Init /\ [][Next]_vars

\* MaxReq requests in flight at a time, on one email
OneEmail == { <<"a", "@", "b", ".", "c">> }

NextConc ==
  \/ \E r \in Reqs, e \in OneEmail, rnd \in RandomValues : SendOtpStart(r, e, rnd)
  \/ \E r \in Reqs : SendMailOk(r)
  \/ \E r \in Reqs : SendMailFail(r)
  \/ \E r \in Reqs, e \in OneEmail, o \in OtpInputs : VerifyOtpStart(r, e, o)
  \/ \E r \in Reqs : LookupFound(r)
  \/ \E r \in Reqs : LookupThrows(r)
  \/ \E r \in Reqs : CreateUserOk(r)
  \/ \E r \in Reqs : CreateUserFail(r)
  \/ \E r \in Reqs : MintOk(r)
  \/ \E r \in Reqs : MintFail(r)
  \/ \E r \in Reqs : Recycle(r)
  \/ Sweep
  \/ Tick

SpecConc == Init /\ [][NextConc]_vars

----------------------------------------------------------------------------
(* The requests of the resource routers *)

\* the requests of the routers, two at a time
AuthReqs == {1, 2}

NextAuth ==
  \/ \E r \in AuthReqs, route \in Routes, h \in Headers : Dispatch(r, route, h)
  \/ \E r \in AuthReqs : VerifyIdTokenOk(r)
  \/ \E r \in AuthReqs : VerifyIdTokenFail(r)
  \/ \E r \in AuthReqs, st \in HandlerStatus, t \in BOOLEAN : Handler(r, st, t)
  \/ \E r \in AuthReqs : Finish(r)

SpecAuth == Init /\ [][NextAuth]_vars

----------------------------------------------------------------------------
(* The specifications of the communities, groups and posts routers *)

OneCommunity == {"c1"}

\* the communities router on one community, MaxRes requests
NextComm ==
  \/ \E u \in Users, c \in OneCommunity, b \in Bodies : CreateCommunity(u, c, b)
  \/ \E r \in ResReqs, u \in Users, c \in OneCommunity : FollowRead(r, u, c)
  \/ \E r \in ResReqs : FollowUpdate(r)
  \/ \E r \in ResReqs, u \in Users, c \in OneCommunity, t \in Texts : PostRead(r, u, c, t)
  \/ \E r \in ResReqs : PostAdd(r)
  \/ \E r \in ResReqs : PostIncrement(r)

SpecComm == Init /\ [][NextComm]_vars

\* the community page of a user next to the create-post route
NextPosts ==
  \/ \E c \in OneCommunity, b \in Bodies : CreateCommunity(PageUser, c, b)
  \/ \E c \in OneCommunity : PostRead(1, PageUser, c, "hi")
  \/ PostAdd(1)
  \/ PostIncrement(1)
  \/ \E c \in OneCommunity : FetchCommunity(c)
  \/ \E c \in OneCommunity : HandleCreatePost(PageUser, c, "hi")
  \/ \E c \in OneCommunity : CreatePostCount(c)
  \/ \E p \in posts : HandleDeletePost(PageUser, p)
  \/ \E c \in OneCommunity : DeletePostCount(c)

SpecPosts == Init /\ [][NextPosts]_vars

\* the groups router and the groups pages on one group
NextGroup ==
  \/ \E u \in Users, g \in GroupIds, b \in GroupBodies : CreateGroup(u, g, b)
  \/ \E u \in Users, g \in GroupIds, b \in GroupBodies : HandleCreateGroup(u, g, b)
  \/ \E r \in Reqs, u \in Users, g \in GroupIds : JoinRead(r, u, g)
  \/ \E r \in Reqs : JoinUpdate(r)
  \/ \E r \in Reqs, u \in Users, g \in GroupIds : LeaveRead(r, u, g)
  \/ \E r \in Reqs : LeaveUpdate(r)
  \/ \E u \in Users, g \in GroupIds : HandleJoinGroup(u, g)
  \/ \E u \in Users, g \in GroupIds : HandleLeaveGroup(u, g)

SpecGroup == Init /\ [][NextGroup]_vars

\* the feed of a user next to the writers of the documents it reads; a page
\* that has been sent is delivered before the next write
FeedUser == "u1"
Author   == "u2"

\* the create-post requests next to a feed request
PostReqs == {1, 2}

PageQueries ==
  { [limit |-> <<1>>,   offset |-> <<1>>,   filter |-> NoFilter],
    [limit |-> Missing, offset |-> Missing, filter |-> "all"] }

NextFeed ==
  \/ fpc # "done" /\ \E c \in CommunityIds, b \in Bodies : CreateCommunity(Author, c, b)
  \/ fpc # "done" /\ \E r \in PostReqs, c \in CommunityIds : PostRead(r, Author, c, "hi")
  \/ fpc # "done" /\ \E r \in PostReqs : PostAdd(r)
  \/ fpc # "done" /\ \E r \in PostReqs : PostIncrement(r)
  \/ fpc # "done" /\ \E c \in CommunityIds, f \in BOOLEAN : HandleFollowToggle(FeedUser, c, f)
  \/ fpc # "done" /\ \E u \in Users, p \in posts, l \in BOOLEAN : HandleLike(u, p, l)
  \/ \E q \in PageQueries : FeedStart(FeedUser, q)
  \/ FeedFetch
  \/ FeedFinish

SpecFeed == Init /\ [][NextFeed]_vars

TrendingQueries == { [limit |-> Missing, offset |-> Missing, filter |-> "trending"] }

\* the create-post requests next to a trending feed request
TrendingReqs == {1, 2, 3}

\* the trending feed of a user on one community, as the days pass
NextTrending ==
  \/ fpc # "done" /\ \E c \in OneCommunity, b \in Bodies : CreateCommunity(Author, c, b)
  \/ fpc # "done" /\ \E r \in TrendingReqs, c \in OneCommunity : PostRead(r, Author, c, "hi")
  \/ fpc # "done" /\ \E r \in TrendingReqs : PostAdd(r)
  \/ fpc # "done" /\ \E r \in TrendingReqs : PostIncrement(r)
  \/ fpc # "done" /\ \E c \in OneCommunity, f \in BOOLEAN : HandleFollowToggle(FeedUser, c, f)
  \/ fpc # "done" /\ \E p \in posts, l \in BOOLEAN : HandleLike(FeedUser, p, l)
  \/ TickDay
  \/ \E q \in TrendingQueries : FeedStart(FeedUser, q)
  \/ FeedFetch
  \/ FeedFinish

SpecTrending == Init /\ [][NextTrending]_vars

----------------------------------------------------------------------------
(* The specification of the group messages: one group, its admin and one other user *)

GroupAdmin == "u1"
Member     == "u2"

NextMsg ==
  \/ \E g \in GroupIds, b \in GroupBodies : CreateGroup(GroupAdmin, g, b)
  \/ \E r \in ResReqs, g \in GroupIds : JoinRead(r, Member, g)
  \/ \E r \in ResReqs : JoinUpdate(r)
  \/ \E r \in ResReqs, g \in GroupIds : LeaveRead(r, Member, g)
  \/ \E r \in ResReqs : LeaveUpdate(r)
  \/ \E r \in ResReqs, g \in GroupIds, t \in Texts : SendRead(r, Member, g, t)
  \/ \E r \in ResReqs : MessageAdd(r)
  \/ \E r \in ResReqs : MessageLast(r)
  \/ \E r \in ResReqs, g \in GroupIds : MessagesRead(r, Member, g)
  \/ \E r \in ResReqs : MessagesQuery(r)

SpecMsg == Init /\ [][NextMsg]_vars

----------------------------------------------------------------------------
(* The specification of community creation: create, get-by-id and the follow toggle *)

NextCreate ==
  \/ \E r \in ResReqs, u \in Users, c \in CommunityIds, b \in CreateBodies :
       CreateCommunityRequest(r, u, c, b)
  \/ \E r \in ResReqs, u \in Users, c \in CommunityIds : GetCommunity(r, u, c)
  \/ \E r \in ResReqs, u \in Users, c \in CommunityIds : FollowRead(r, u, c)
  \/ \E r \in ResReqs : FollowUpdate(r)

SpecCreate == Init /\ [][NextCreate]_vars

----------------------------------------------------------------------------
(* The specification of the search: a store drawn from bounded sets, one request at a time *)

SearchUser == "u1"

SearchTexts ==
  { <<"A", "b">>, <<"x", "a", "B", "c">>, <<"b", " ", "a">>, Missing }

SearchTimes == {0, 1}

SearchQueries ==
  { [q |-> q, limit |-> lo.limit, offset |-> lo.offset] :
      q \in { Missing, <<" ", "a", " ">>, <<"a", "b">>, <<"A", "B", " ">>, <<"b", " ", "a">> },
      lo \in { [limit |-> Missing, offset |-> Missing], [limit |-> <<1>>, offset |-> <<1>>] } }

\* a post document of the store the search reads
StoredPost(id, c, text, t) ==
  [id |-> id, communityId |-> c, text |-> text, author |-> SearchUser,
   timestamp |-> t, likes |-> {}, byFollower |-> TRUE]

\* the stores of the search runs: some communities and up to MaxSearchPosts posts in them
SearchStoreInit ==
  /\ \E cs \in SUBSET CommunityIds :
       /\ communities = [c \in CommunityIds |->
            IF c \in cs THEN CHOOSE d \in { CommunityDoc(SearchUser, b) : b \in Bodies } : TRUE
                        ELSE NoDoc]
       /\ \E n \in 0 .. MaxSearchPosts :
            /\ postSeq = n
            /\ \E cf \in [1 .. n -> cs], tf \in [1 .. n -> SearchTexts], sf \in [1 .. n -> SearchTimes] :
                 posts = { StoredPost(i, cf[i], tf[i], sf[i]) : i \in 1 .. n }
  /\ groups = [g \in GroupIds |-> NoDoc]
  /\ clock = 1

InitSearch == OtpInit /\ AuthInit /\ SearchStoreInit /\ HandlersInit /\ ExtInit

NextSearch ==
  \/ \E q \in SearchQueries : SearchStart(SearchUser, q)
  \/ SearchFetch
  \/ SearchFinish

SpecSearch == InitSearch /\ [][NextSearch]_vars

----------------------------------------------------------------------------
(* The specification of the users routes: two requests, a store of profiles and notifications *)

UserReqs == {1, 2}

\* the stores of the users runs: who has a profile, whose each notification is, which are read
UsersStoreInit ==
  /\ \E have \in SUBSET Users :
       userDocs = [u \in Users |-> IF u \in have THEN ProfileDoc(u, "Old") ELSE NoDoc]
  /\ \E of \in [NotificationIds -> Users], rd \in [NotificationIds -> BOOLEAN] :
       userNotifications =
         { [owner |-> of[n], id |-> n, read |-> rd[n], timestamp |-> 0] : n \in NotificationIds }
  /\ userBookmarks = {}
  /\ bookmarkSeq = 0

InitUsers == OtpInit /\ AuthInit /\ AppInit /\ UsersStoreInit /\ ClientInit

NextUsers ==
  \/ \E r \in UserReqs, u \in Users : GetProfile(r, u)
  \/ \E r \in UserReqs, u \in Users, n \in Names : UpdateProfile(r, u, n)
  \/ \E r \in UserReqs, u \in Users : GetNotifications(r, u)
  \/ \E r \in UserReqs, u \in Users, n \in NotificationIds : MarkNotificationRead(r, u, n)
  \/ \E r \in UserReqs, u \in Users : ReadAllQuery(r, u)
  \/ \E r \in UserReqs : ReadAllCommit(r)
  \/ \E r \in UserReqs, u \in Users : GetBookmarks(r, u)
  \/ \E r \in UserReqs, u \in Users, p \in PostIds : AddBookmark(r, u, p)
  \/ \E r \in UserReqs, u \in Users, b \in 1 .. MaxBookmarks : RemoveBookmark(r, u, b)

SpecUsers == InitUsers /\ [][NextUsers]_vars

----------------------------------------------------------------------------
(* The specification of the client notification store: the store's operations *)
(* called in any order, and the Notifications page over the documents of the users *)

NextNotif ==
  \/ \E ns \in NotificationLists : StoreSet(ns)
  \/ \E n \in NotificationItems : StoreAdd(n)
  \/ \E id \in NotificationIds : StoreMarkAsRead(id)
  \/ StoreMarkAllAsRead
  \/ OnSnapshot
  \/ \E id \in NotificationIds : HandleMarkAsRead(id)
  \/ \E id \in NotificationIds : MarkAsReadResolved(id)
  \/ HandleMarkAllAsRead
  \/ MarkAllAsReadResolved

SpecNotif == InitUsers /\ [][NextNotif]_vars

----------------------------------------------------------------------------
(* The specification of generateOTP: the values of Math.random() drawn one by one *)

SampleDen == 8   \* Math.random() takes the values k / SampleDen, k < SampleDen

RandomSamples == { <<k, SampleDen>> : k \in 0 .. SampleDen - 1 }

\* const otp = generateOTP() with Math.random() = rnd[1] / rnd[2]
GenerateOTP(rnd) ==
  /\ rnd \notin drawn
  /\ drawn' = drawn \cup {rnd}
  /\ codes' = codes \cup { generateOTP(rnd) }
  /\ UNCHANGED <<otpVars, authVars>>
  /\ UNCHANGED <<storeVars, resVars, clientVars, feedVars>>
  /\ UNCHANGED <<msgVars, rdata, userVars, notifVars, searchVars, prior>>

NextGen == \E rnd \in RandomSamples : GenerateOTP(rnd)

SpecGen == Init /\ [][NextGen]_vars

----------------------------------------------------------------------------
(* Steps and replies the properties speak about *)

Started(r)       == pc[r] = "idle" /\ pc'[r] # "idle"
VerifyStarted(r) == Started(r) /\ req'[r].kind = "verify"
SendStarted(r)   == Started(r) /\ req'[r].kind = "send"
Answered(r)      == pc[r] # "done" /\ pc'[r] = "done"
SweepRan         == sweepDue /\ ~sweepDue'

HasToken(rsp) == rsp.token # NoToken

NotFound        == Reply(400, "OTP not found or expired")
Expired         == Reply(400, "OTP has expired")
TooMany         == Reply(400, "Too many failed attempts. Please request a new OTP.")
InvalidCode     == Reply(400, "Invalid OTP")
ProviderFailure == Reply(500, "Failed to create authentication token")

WaitsForProvider(r) == pc[r] \in {"lookup", "create", "mint"}

\* verify-otp r starts on email e with a code, and the Map holds a record for e
VerifyOn(r, e) ==
  /\ VerifyStarted(r)
  /\ req'[r].email = e
  /\ req'[r].otp # Missing
  /\ otpStorage[e] # NoRecord

----------------------------------------------------------------------------
(* C1: with one request at a time, a verify-otp carrying the stored code of  *)
(* a fresh record is accepted and is answered with a token unless the        *)
(* identity provider fails; the token is returned once per send-otp, the     *)
(* record is gone when it is returned, a verify-otp on an email without a    *)
(* record is answered NotFound, and only send-otp brings a record back.      *)
C1_TokenOnceThenNotFound ==
  [][\A r \in Reqs, e \in ValidEmails :
       /\ (VerifyOn(r, e) /\ req'[r].otp = otpStorage[e].otp
             /\ now <= otpStorage[e].expiresAt /\ otpStorage[e].attempts < 3)
            => pc'[r] = "lookup"
       /\ (WaitsForProvider(r) /\ Answered(r))
            => (resp'[r] = ProviderFailure
                  \/ (resp'[r].status = 200 /\ HasToken(resp'[r])))
       /\ (Answered(r) /\ HasToken(resp'[r]) /\ req[r].email = e)
            => (otpStorage'[e] = NoRecord /\ issued'[e] = <<storedData[r].otp>>)
       /\ Len(issued'[e]) <= 1
       /\ (VerifyStarted(r) /\ req'[r].email = e /\ req'[r].otp # Missing
             /\ otpStorage[e] = NoRecord)
            => (resp'[r] = NotFound /\ pc'[r] = "done" /\ otpStorage'[e] = NoRecord)
       /\ (otpStorage[e] = NoRecord /\ otpStorage'[e] # NoRecord)
            => \E q \in Reqs : SendStarted(q) /\ req'[q].email = e
    ]_vars

\* a token was returned for the code, no send-otp followed, and the same code gets NotFound
C1_Witness ==
  \E e \in ValidEmails :
    /\ Len(issued[e]) = 1
    /\ pc[1] = "done" /\ req[1].kind = "verify" /\ req[1].email = e
    /\ req[1].otp = issued[e][1]
    /\ resp[1] = NotFound

(* C2: for any interleaving of verify-otp requests with the correct code,   *)
(* at most one of them returns a token for a given send-otp.                 *)
C2_SingleUse == \A e \in ValidEmails : Len(issued[e]) <= 1

(* C3: a stored record's attempts counter is between 0 and 3, and a          *)
(* verify-otp on an unexpired record that has 3 attempts is answered         *)
(* TooManyAttempts without a token and deletes the record, also when it      *)
(* carries the stored code.                                                  *)
C3_AttemptLimit ==
  [][\A r \in Reqs, e \in ValidEmails :
       /\ otpStorage'[e] # NoRecord => otpStorage'[e].attempts \in 0 .. 3
       /\ (VerifyOn(r, e) /\ now <= otpStorage[e].expiresAt /\ otpStorage[e].attempts >= 3)
            => (resp'[r] = TooMany /\ pc'[r] = "done" /\ otpStorage'[e] = NoRecord)
       /\ (Answered(r) /\ resp'[r] = TooMany) => storedData'[r].attempts = 3
    ]_vars

\* the fourth verify-otp carried the stored code and was answered TooManyAttempts
C3_Witness ==
  \E r \in Reqs :
    /\ pc[r] = "done" /\ resp[r] = TooMany
    /\ storedData[r] # NoRecord
    /\ storedData[r].attempts = 3
    /\ req[r].otp = storedData[r].otp
    /\ otpStorage[req[r].email] = NoRecord

(* C4: a record expires 5 minutes after its send-otp; a verify-otp later     *)
(* than the expiry is answered Expired without a token and deletes the       *)
(* record, whatever code it carries, and no earlier verify-otp is answered   *)
(* Expired.                                                                  *)
C4_Expired ==
  [][\A r \in Reqs, e \in ValidEmails :
       /\ (SendStarted(r) /\ req'[r].email = e) => otpStorage'[e].expiresAt = now + OtpTtl
       /\ (VerifyOn(r, e) /\ now > otpStorage[e].expiresAt)
            => (resp'[r] = Expired /\ pc'[r] = "done" /\ otpStorage'[e] = NoRecord)
       /\ (VerifyOn(r, e) /\ now <= otpStorage[e].expiresAt) => resp'[r] # Expired
    ]_vars

\* a verify-otp with the stored code came after the expiry and was answered Expired
C4_Witness ==
  \E r \in Reqs :
    /\ pc[r] = "done" /\ resp[r] = Expired
    /\ storedData[r] # NoRecord
    /\ req[r].otp = storedData[r].otp
    /\ now > storedData[r].expiresAt
    /\ otpStorage[req[r].email] = NoRecord

(* C5: a send-otp for an email that has a record replaces it by a new        *)
(* record (a generated code, expiry = now + 5 minutes, attempts = 0) and     *)
(* touches no other email; a verify-otp passes the code check only with the  *)
(* code of the record that is in the Map at that time.                       *)
C5_SendReplaces ==
  [][\A r \in Reqs, e \in ValidEmails :
       /\ (SendStarted(r) /\ req'[r].email = e /\ otpStorage[e] # NoRecord)
            => /\ otpStorage'[e].otp \in GenCodes
               /\ otpStorage'[e].expiresAt = now + OtpTtl
               /\ otpStorage'[e].attempts = 0
               /\ \A f \in EmailInputs \ {e} : otpStorage'[f] = otpStorage[f]
       /\ (VerifyStarted(r) /\ req'[r].email = e /\ pc'[r] = "lookup")
            => (otpStorage[e] # NoRecord /\ req'[r].otp = otpStorage[e].otp)
       /\ (VerifyOn(r, e) /\ req'[r].otp # otpStorage[e].otp) => ~WaitsForProvider(r)'
    ]_vars

\* a send-otp has replaced the record a verify-otp in flight had read, with another code
C5_Witness ==
  \E r, q \in Reqs :
    /\ pc[r] = "lookup" /\ r \in stale
    /\ pc[q] = "mail" /\ req[q].email = req[r].email
    /\ storedData[r].attempts > 0
    /\ otpStorage[req[q].email] # NoRecord
    /\ otpStorage[req[q].email].otp # storedData[r].otp
    /\ otpStorage[req[q].email].attempts = 0

(* C6: a verify-otp with a mismatching code on an unexpired record with      *)
(* fewer than 3 attempts is answered InvalidCode, adds exactly 1 to the      *)
(* record's attempts and leaves its code, its expiry and every other record  *)
(* as they were.                                                             *)
C6_Mismatch ==
  [][\A r \in Reqs, e \in ValidEmails :
       (VerifyOn(r, e) /\ now <= otpStorage[e].expiresAt /\ otpStorage[e].attempts < 3
          /\ req'[r].otp # otpStorage[e].otp)
         => /\ resp'[r] = InvalidCode /\ pc'[r] = "done"
            /\ otpStorage'[e] # NoRecord
            /\ otpStorage'[e].attempts = otpStorage[e].attempts + 1
            /\ otpStorage'[e].otp = otpStorage[e].otp
            /\ otpStorage'[e].expiresAt = otpStorage[e].expiresAt
            /\ \A f \in EmailInputs \ {e} : otpStorage'[f] = otpStorage[f]
    ]_vars

\* a mismatching verify-otp was answered InvalidCode and the record holds one more attempt
C6_Witness ==
  \E r \in Reqs :
    /\ pc[r] = "done" /\ resp[r] = InvalidCode
    /\ otpStorage[req[r].email] # NoRecord
    /\ otpStorage[req[r].email].attempts = storedData[r].attempts + 1
    /\ storedData[r].attempts = 1
    /\ otpStorage[req[r].email].otp = storedData[r].otp

(* C7: when an identity-provider call fails after a matching code, the       *)
(* request is answered 500 without a token and the record has been           *)
(* consumed, so that a retry with the same code finds no record.             *)
C7_FailureConsumes ==
  [][\A r \in Reqs :
       (WaitsForProvider(r) /\ Answered(r) /\ ~HasToken(resp'[r]))
         => (resp'[r].status = 500 /\ otpStorage'[req[r].email] = NoRecord)
    ]_vars

(* C8: a run of the sweep leaves no record whose expiry is earlier than the  *)
(* sweep time, whatever its attempts, and leaves every record whose expiry   *)
(* has not passed, and every request, unchanged.                             *)
C8_Sweep ==
  [][SweepRan =>
       /\ \A e \in EmailInputs :
            /\ otpStorage'[e] # NoRecord => otpStorage'[e].expiresAt >= now
            /\ (otpStorage[e] # NoRecord /\ otpStorage[e].expiresAt >= now)
                 => otpStorage'[e] = otpStorage[e]
            /\ otpStorage[e] = NoRecord => otpStorage'[e] = NoRecord
       /\ UNCHANGED <<pc, req, resp, storedData, now, users>>
    ]_vars

\* the sweep has removed an expired record that had failed attempts and left a live one
C8_Witness ==
  \E e, f \in ValidEmails :
    /\ ~sweepDue
    /\ e \in swept /\ otpStorage[e] = NoRecord
    /\ pc[1] = "done" /\ req[1].email = e /\ resp[1] = InvalidCode
    /\ otpStorage[f] # NoRecord /\ otpStorage[f].expiresAt >= now

C11_InvalidEmailRejected ==
  [][ \A r \in Reqs :
        /\ (SendStarted(r) /\ req'[r].email \notin ValidEmails) =>
              /\ resp'[r] = Reply(400, "Please use a valid email address")
              /\ pc'[r] = "done"
              /\ \A e \in DOMAIN otpStorage : otpStorage'[e] = otpStorage[e]
        /\ pc'[r] = "mail" => req'[r].email \in ValidEmails ]_vars

C11_Witness ==
  \E r \in Reqs :
    /\ pc[r] = "done"
    /\ req[r].kind = "send"
    /\ req[r].email = <<"a", "@", "b">>
    /\ resp[r].status = 400
    /\ \E e \in ValidEmails : otpStorage[e] # NoRecord

----------------------------------------------------------------------------
(* Steps of the communities, groups and posts routers *)

Begins(r, kind) == rpc[r] = "idle" /\ rpc'[r] # "idle" /\ rreq'[r].kind = kind
Leaves(r, at)   == rpc[r] = at /\ rpc'[r] # at

\* request r toggled the follower array and has been answered
Toggled(r, uid, c) ==
  /\ rpc[r] = "done"
  /\ rreq[r] = [kind |-> "follow", uid |-> uid, target |-> c, text |-> ""]
  /\ rresp[r].status = 200

(* C12: when two follow requests of one user on one community have both     *)
(* been answered, and no other request has changed the follower array, the  *)
(* user is a follower exactly if they were one before the first request,    *)
(* and the second response reports that isFollowing, whatever the order of  *)
(* the reads and updates of the two requests.                               *)
C12_DoubleToggle ==
  \A r1, r2 \in ResReqs : \A uid \in Users : \A c \in CommunityIds :
    ( /\ r1 < r2
      /\ Toggled(r1, uid, c) /\ Toggled(r2, uid, c)
      /\ \A q \in ResReqs \ {r1, r2} : rreq[q].kind = "follow" => rresp[q].status # 200 )
    => /\ (uid \in communities[c].followers) = ~rresp[r1].isFollowing
       /\ rresp[r2].isFollowing = ~rresp[r1].isFollowing

(* C13: a create-post request with content on an existing community whose    *)
(* follower array lacks the caller is answered 403, adds no post and changes *)
(* no community document; the same request from a follower goes on, adds     *)
(* exactly one post (of the caller, in that community), then adds exactly 1  *)
(* to postCount, and is answered 200 only after that.                        *)
C13_PostNeedsFollower ==
  [][ \A r \in ResReqs :
        LET uid == rreq'[r].uid
            c   == rreq'[r].target
            asked == Begins(r, "post") /\ rreq'[r].text # "" /\ communities[c].exists
        IN /\ (asked /\ uid \notin communities[c].followers) =>
                /\ rresp'[r] = Answer(403, "Must follow community to post")
                /\ rpc'[r] = "done"
                /\ posts' = posts /\ communities' = communities
           /\ (asked /\ uid \in communities[c].followers) => rpc'[r] = "add"
           /\ Leaves(r, "add") =>
                /\ rpc'[r] = "count"
                /\ communities' = communities
                /\ posts \subseteq posts' /\ Cardinality(posts') = Cardinality(posts) + 1
                /\ \A p \in posts' \ posts : p.author = uid /\ p.communityId = c
           /\ Leaves(r, "count") =>
                /\ rresp'[r] = Answer(200, "Post created successfully")
                /\ posts' = posts
                /\ communities'[c].postCount = communities[c].postCount + 1
           /\ (rreq'[r].kind = "post" /\ rresp'[r].status = 200 /\ rresp[r].status # 200)
                => rpc[r] = "count" ]_vars

C13_Witness ==
  \E r1, r2, r3 \in ResReqs : \E uid \in Users : \E c \in CommunityIds :
    /\ r1 < r2 /\ r2 < r3
    /\ rreq[r1] = [kind |-> "post", uid |-> uid, target |-> c, text |-> "hi"]
    /\ rresp[r1].status = 403
    /\ Toggled(r2, uid, c) /\ rresp[r2].isFollowing
    /\ rreq[r3] = rreq[r1]
    /\ rpc[r3] = "done" /\ rresp[r3].status = 200
    /\ Cardinality(PostsOf(c)) = 1
    /\ communities[c].postCount = 1

(* C14: in every reachable state the postCount of a community is the number  *)
(* of post documents stored under it.                                        *)
C14_PostCountIsNumberOfPosts ==
  \A c \in CommunityIds :
    communities[c].exists => communities[c].postCount = Cardinality(PostsOf(c))

(* C15: every stored post was written at a moment when its author was in     *)
(* the follower array of its community.                                      *)
C15_WrittenByFollower == \A p \in posts : p.byFollower

(* C16: a page the feed returns under filter=trending holds only posts whose *)
(* timestamp is not older than 24 hours at the arrival of the request (and   *)
(* not later than the clock), and its posts are in order of non-increasing   *)
(* size of the like set.                                                     *)
C16_TrendingWindow ==
  (fpc = "done" /\ freq.filter = "trending") =>
    /\ \A i \in 1 .. Len(paginatedPosts) :
         /\ paginatedPosts[i].timestamp >= fstart.clock - OneDay
         /\ paginatedPosts[i].timestamp <= clock
    /\ \A i, j \in 1 .. Len(paginatedPosts) :
         i < j => Cardinality(paginatedPosts[i].likes) >= Cardinality(paginatedPosts[j].likes)

C16_Witness ==
  /\ fpc = "done" /\ freq.filter = "trending"
  /\ Len(paginatedPosts) = 2
  /\ Cardinality(paginatedPosts[1].likes) > Cardinality(paginatedPosts[2].likes)
  /\ paginatedPosts[1].timestamp < paginatedPosts[2].timestamp
  /\ \E p \in posts :
       /\ p.communityId \in Range(followedCommunityIds)
       /\ p.timestamp < fstart.clock - OneDay

(* C17: the communities the feed reads are those whose follower array holds  *)
(* the caller when the request arrives; every post of the page belongs to    *)
(* one of them and carries isLiked = (the caller is in its like set); a      *)
(* caller who follows no community gets the empty page.                      *)
C17_FollowedOnly ==
  [][ /\ (fpc = "idle" /\ fpc' # "idle") =>
           Range(followedCommunityIds') =
             { c \in CommunityIds : communities[c].exists /\ freq'.uid \in communities[c].followers }
      /\ fpc' = "done" =>
           /\ \A i \in 1 .. Len(paginatedPosts') :
                /\ paginatedPosts'[i].communityId \in Range(followedCommunityIds')
                /\ paginatedPosts'[i].isLiked = (freq'.uid \in paginatedPosts'[i].likes)
           /\ followedCommunityIds' = <<>> => paginatedPosts' = <<>> ]_vars

C17_Witness ==
  /\ fpc = "done"
  /\ \E i \in 1 .. Len(paginatedPosts) :
       paginatedPosts[i].isLiked /\ paginatedPosts[i].likes = Users
  /\ \E p \in posts :
       /\ p.communityId \notin Range(followedCommunityIds)
       /\ p.likes = {Author}

\* the posts of community c that have fewer than n newer posts of c
MostRecent(c, n) ==
  { p \in PostsOf(c) : Cardinality({ q \in PostsOf(c) : Newer(q, p) }) < n }

Ids(s) == { s[i].id : i \in 1 .. Len(s) }

(* C18: each pass of the feed loop adds the limit most recent posts of one   *)
(* followed community, and no more, to the merged list; the page is the      *)
(* slice [offset, offset + limit) of the sorted merged list, so there are    *)
(* requests with offset > 0 whose page lacks a post that ranks inside        *)
(* [offset, offset + limit) among the posts of the followed communities and  *)
(* is shorter than limit although more posts exist.                          *)
C18_PerCommunityLimit ==
  [][ (fpc = "fetch" /\ fnext' # fnext) =>
        LET recent == MostRecent(followedCommunityIds[fnext], Limit(freq))
            last   == IF Offset(freq) + Limit(freq) < Len(allPosts')
                        THEN Offset(freq) + Limit(freq) ELSE Len(allPosts')
        IN /\ Ids(allPosts') = Ids(allPosts) \cup { p.id : p \in recent }
           /\ Len(allPosts') = Len(allPosts) + Cardinality(recent)
           /\ fpc' = "done" => paginatedPosts' = SubSeq(allPosts', Offset(freq) + 1, last) ]_vars

\* the posts of the communities the request reads, and the rank of one among them
FeedPosts == { p \in posts : p.communityId \in Range(followedCommunityIds) }
Rank(p)   == Cardinality({ q \in FeedPosts : Newer(q, p) })

C18_Witness ==
  /\ fpc = "done" /\ Offset(freq) > 0
  /\ \A p \in posts : p.id <= fstart.postSeq
  /\ \E p \in FeedPosts :
       /\ Rank(p) >= Offset(freq) /\ Rank(p) < Offset(freq) + Limit(freq)
       /\ p.id \notin Ids(paginatedPosts)
  /\ Len(paginatedPosts) < Limit(freq)
  /\ Cardinality(FeedPosts) > Offset(freq) + Len(paginatedPosts)

(* C19: a leave request of the user who is the admin of an existing group    *)
(* is answered 400 "Admin cannot leave the group" and leaves the member set  *)
(* of the group as it was, whatever came before it.                          *)
C19_AdminCannotLeave ==
  [][ \A r \in Reqs :
        (/\ Begins(r, "leave")
         /\ groups[rreq'[r].target].exists
         /\ groups[rreq'[r].target].admin = rreq'[r].uid)
          => /\ rresp'[r] = Answer(400, "Admin cannot leave the group")
             /\ groups' = groups ]_vars

(* C20: in every reachable state the admin of an existing group is one of    *)
(* its members, the page handlers' direct writes to the member set included. *)
C20_AdminIsMember ==
  \A g \in GroupIds : groups[g].exists => groups[g].admin \in groups[g].members

(* C21: every message document and every lastMessage of a group was written  *)
(* for a sender who was in the member set of the group at the time of the    *)
(* write, a leave request of the sender running next to the send included.   *)
C21_SenderIsMember ==
  /\ \A m \in messages : m.byMember
  /\ \A g \in GroupIds : lastMessage[g].byMember

(* C22: a create request of user U with the three fields stores a community  *)
(* with followers = [U], admin = U and postCount = 0; a get-by-id of U on a  *)
(* community that is as U's create request stored it reports isFollowing =   *)
(* true; a create request that lacks a field is answered 400 and stores      *)
(* nothing.                                                                  *)
C22_CreatorFollows ==
  [][ \A r \in ResReqs :
        LET uid == rreq'[r].uid
            c   == rreq'[r].target
        IN /\ (Begins(r, "create") /\ rresp'[r].status = 200) =>
                /\ ~communities[c].exists /\ communities'[c].exists
                /\ communities'[c].followers = {uid}
                /\ communities'[c].admin = uid
                /\ communities'[c].postCount = 0
                /\ \A d \in CommunityIds \ {c} : communities'[d] = communities[d]
           /\ (Begins(r, "create") /\ rresp'[r].status # 200) =>
                /\ rresp'[r].status = 400
                /\ communities' = communities
           /\ (Begins(r, "create") /\ communities' # communities) => rresp'[r].status = 200
           /\ (/\ Begins(r, "get")
               /\ communities[c].exists
               /\ communities[c].admin = uid
               /\ communities[c].followers = {uid}
               /\ communities[c].postCount = 0) =>
                /\ rresp'[r].status = 200
                /\ rresp'[r].isFollowing ]_vars

C22_Witness ==
  \E r, q \in ResReqs :
    /\ r < q
    /\ rreq[r].kind = "create" /\ rresp[r].status = 200
    /\ rreq[q].kind = "get" /\ rreq[q].uid = rreq[r].uid /\ rreq[q].target = rreq[r].target
    /\ rresp[q].isFollowing
    /\ \E p \in ResReqs : rreq[p].kind = "create" /\ rresp[p].status = 400

\* term occurs in text at some position
Occurs(term, text) ==
  \E i \in 0 .. Len(text) - Len(term) :
    \A k \in 1 .. Len(term) : text[i + k] = term[k]

(* C23: the search answers 400 exactly when the query is missing or shorter  *)
(* than 2 characters after trimming; otherwise the list it sorts holds       *)
(* exactly the posts of all communities whose text contains the trimmed      *)
(* query without regard to case, each once, in order of non-increasing       *)
(* timestamp, and the page is positions [offset, offset + limit) of it.      *)
C23_SearchResult ==
  spc = "done" =>
    LET short == sreq.q = Missing \/ Len(trim(sreq.q)) < 2
        wanted == { p \in posts : Occurs(toLowerCase(trim(sreq.q)), toLowerCase(p.text)) }
        last == IF Offset(sreq) + Limit(sreq) < Len(matchingPosts)
                  THEN Offset(sreq) + Limit(sreq) ELSE Len(matchingPosts)
    IN IF short THEN sstatus = 400 /\ searchPage = <<>>
       ELSE /\ sstatus = 200
            /\ Ids(matchingPosts) = { p.id : p \in wanted }
            /\ Len(matchingPosts) = Cardinality(wanted)
            /\ \A i, j \in 1 .. Len(matchingPosts) :
                 i < j => matchingPosts[i].timestamp >= matchingPosts[j].timestamp
            /\ searchPage = SubSeq(matchingPosts, Offset(sreq) + 1, last)

C23_Witness ==
  /\ spc = "done" /\ sstatus = 200
  /\ sreq.q # toLowerCase(trim(sreq.q))
  /\ Offset(sreq) > 0
  /\ Len(searchPage) = 1
  /\ searchPage[1].text # toLowerCase(searchPage[1].text)
  /\ ~startsWith(toLowerCase(searchPage[1].text), SearchTerm(sreq.q))
  /\ matchingPosts[1].timestamp > searchPage[1].timestamp
  /\ matchingPosts[1].communityId # searchPage[1].communityId

(* C24: a step of a users route that serves user A leaves the profile, the   *)
(* notifications and the bookmarks of every other user as they were, and the *)
(* documents it sends are documents kept under A.                            *)
C24_OwnDocumentsOnly ==
  [][ \A r \in UserReqs :
        rpc'[r] # rpc[r] =>
          LET caller == rreq'[r].uid IN
          /\ \A other \in Users \ {caller} :
               /\ userDocs'[other] = userDocs[other]
               /\ { n \in userNotifications' : n.owner = other } = NotificationsOf(other)
               /\ { b \in userBookmarks' : b.owner = other } = BookmarksOf(other)
          /\ rdata'[r] # rdata[r] =>
               \A i \in 1 .. Len(rdata'[r]) :
                 IF rreq'[r].kind = "profile" THEN rdata'[r][i].uid = caller
                                              ELSE rdata'[r][i].owner = caller ]_vars

C24_Witness ==
  \E r, q \in UserReqs :
    /\ rreq[r].kind = "read" /\ rresp[r].status = 200
    /\ rreq[q].kind = "read" /\ rresp[q].status = 500 /\ rreq[q].uid = rreq[r].uid
    /\ \E n \in userNotifications :
         n.id = rreq[q].target /\ n.owner # rreq[q].uid /\ ~n.read

IsDigits(s, n) == Len(s) = n /\ \A i \in 1 .. n : s[i] \in 0 .. 9

(* C25: every code generateOTP returns has exactly 6 decimal digits, and the *)
(* codes range over all of 000000 to 999999: once Math.random() has returned *)
(* each of its values, the least of them 0, a code with a leading zero has   *)
(* been issued.                                                              *)
C25_FullRange ==
  /\ \A c \in codes : IsDigits(c, 6)
  /\ drawn = RandomSamples => \E c \in codes : c[1] = 0

(* C25 as amended: every code generateOTP returns has exactly 6 decimal      *)
(* digits and its first digit is not 0; the least code, for Math.random()    *)
(* = 0, is 100000.                                                           *)
C25_SixDigitsNoLeadingZero ==
  /\ \A c \in codes : IsDigits(c, 6) /\ c[1] # 0
  /\ <<0, SampleDen>> \in drawn => <<1, 0, 0, 0, 0, 0>> \in codes

C25_Witness ==
  /\ drawn = RandomSamples
  /\ <<1, 0, 0, 0, 0, 0>> \in codes
  /\ \E c \in codes : c[1] >= 8

(* C26: verify-otp calls the identity provider's createUser only when the    *)
(* lookup by email found no user for the email: a lookup that fails while    *)
(* the email has a user is not followed by a createUser call.                *)
C26_CreateOnlyIfAbsent ==
  [][ \A r \in Reqs :
        (pc[r] = "lookup" /\ pc'[r] = "create") => req[r].email \notin users ]_vars

(* C27: verify-otp goes on to the identity provider only if, at its check,   *)
(* the store holds a record for the email that has not expired, has fewer    *)
(* than 3 attempts and holds the submitted code; a token is returned only by *)
(* a request that went on from that check, so never for a mismatching code   *)
(* or an email without a record.                                             *)
C27_TokenOnlyForValidRecord ==
  [][ \A r \in Reqs :
        /\ (pc[r] = "idle" /\ pc'[r] = "lookup") =>
             LET rec == otpStorage[req'[r].email] IN
             /\ req'[r].kind = "verify"
             /\ rec # NoRecord
             /\ now <= rec.expiresAt
             /\ rec.attempts < MaxAttempts
             /\ rec.otp = req'[r].otp
             /\ storedData'[r] = rec
        /\ (pc[r] # "lookup" /\ pc'[r] = "lookup") => pc[r] = "idle"
        /\ (pc[r] # "create" /\ pc'[r] = "create") => pc[r] = "lookup"
        /\ (pc[r] # "mint" /\ pc'[r] = "mint") => pc[r] \in {"lookup", "create"}
        /\ (pc[r] \in {"lookup", "create", "mint"}) => req'[r] = req[r] /\ storedData'[r] = storedData[r]
        /\ (~HasToken(resp[r]) /\ HasToken(resp'[r])) =>
             /\ pc[r] = "mint"
             /\ storedData[r] # NoRecord
             /\ storedData[r].otp = req[r].otp ]_vars

C27_Witness ==
  \E r \in Reqs :
    /\ pc[r] = "done" /\ HasToken(resp[r])
    /\ storedData[r].attempts > 0
    /\ now > storedData[r].expiresAt

(* C28: a verify-otp that returns a token removes only the record it         *)
(* validated: when a send-otp has replaced that record while the request     *)
(* waited for the identity provider, the record the store holds for the      *)
(* email is still there after the request has completed.                     *)
C28_NewRecordSurvives ==
  [][ \A r \in Reqs :
        (/\ pc[r] = "mint" /\ pc'[r] = "done" /\ HasToken(resp'[r])
         /\ r \in stale
         /\ otpStorage[req[r].email] # NoRecord)
          => otpStorage'[req[r].email] = otpStorage[req[r].email] ]_vars

\* C29 (as stated): when the dispatch of send-otp fails, the request is
\* answered 500 and the record of its email is again the one that was there
\* before the request (none, or the earlier record).
C29_StoreRestored ==
  [][\A r \in Reqs :
       (pc[r] = "mail" /\ pc'[r] = "done" /\ resp'[r].status = 500)
         => otpStorage'[req[r].email] = prior[r]]_vars

\* C29 (amended): send-otp stores its record, with no attempts and a fresh
\* expiry, in place of whatever the email had, before it dispatches; when the
\* dispatch fails the request is answered 500 and the failure handling leaves
\* the whole OTP store as the dispatch found it.
C29_FailureKeepsStore ==
  [][\A r \in Reqs :
       /\ (pc[r] = "idle" /\ pc'[r] = "mail")
            => /\ otpStorage'[req'[r].email] # NoRecord
               /\ otpStorage'[req'[r].email].attempts = 0
               /\ otpStorage'[req'[r].email].expiresAt = now + OtpTtl
               /\ prior'[r] = otpStorage[req'[r].email]
       /\ (pc[r] = "mail" /\ pc'[r] = "done" /\ resp'[r].status # 200)
            => /\ resp'[r].status = 500
               /\ otpStorage' = otpStorage]_vars

\* C29 witness: a send-otp answered 500 whose record stands where an earlier,
\* different record of the same email stood.
C29_Witness ==
  \E r \in Reqs :
    /\ pc[r] = "done"
    /\ req[r].kind = "send"
    /\ resp[r].status = 500
    /\ prior[r] # NoRecord
    /\ otpStorage[req[r].email] # NoRecord
    /\ otpStorage[req[r].email] # prior[r]

\* C30: in the client notification store unreadCount is the number of stored
\* notifications whose read flag is false, whatever the store's operations and
\* the Notifications page have done.
C30_UnreadCountExact ==
  unreadCount = Cardinality({ i \in DOMAIN notifications : ~notifications[i].read })

====
